---- MODULE Spec2Model ----
(***************************************************************************)
(* A state-machine model of sdt.fret.sm_analyzer.SmFretAnalyzer and of the *)
(* older sdt.fret.SmFretAnalyzer (stoichiometry, get_excitation_type).     *)
(*                                                                         *)
(* A table is a sequence of rows; a row is a record holding the input      *)
(* columns (particle, frame, donor mass, acceptor mass, has_neighbor) and  *)
(* the derived ("fret", ...) columns.  The variable cols names the         *)
(* optional columns the table currently has; a column that is absent holds *)
(* a fixed placeholder in every row.                                       *)
(*                                                                         *)
(* Brightness values are IEEE doubles in the program.  They are modelled   *)
(* as extended rationals <<n, d>>: d > 0 is the finite value n/d in lowest *)
(* terms, <<0,0>> is NaN, <<1,0>> is +inf and <<-1,0>> is -inf.  Finite    *)
(* arithmetic is exact (rounding is not modelled); the special values      *)
(* follow the IEEE rules.                                                  *)
(***************************************************************************)
EXTENDS Integers, Sequences, FiniteSets, TLC

\* excitation_seq, tracks_orig, tracks: the analyzer's attributes (cols_orig
\* and cols name the optional columns of the two tables).
\* exc_frames: the analyzer's _exc_frames dictionary, a function from the
\*   keys it holds to the frame positions stored under them.
\* caller_tracks: the table the caller handed to the constructor.
\* ret: the value returned by the last excitation_frames lookup or eval.
\* cp_calls: the calls of cp_detector.find_changepoints made by the last
\*   segment_a_mass, as a function from the particle to the answer.
\* last_call, last_args, err: the method called last, its arguments and the
\*   exception it raised ("none" when it returned).
\* legacy: the value returned by the last call of a method of the older
\*   class (stoichiometry, get_excitation_type) on the caller's table.
VARIABLES excitation_seq, tracks_orig, cols_orig, tracks, cols,
          cp_calls, last_call, last_args, err, legacy,
          exc_frames, caller_tracks, ret

vars == <<excitation_seq, tracks_orig, cols_orig, tracks, cols,
          cp_calls, last_call, last_args, err, legacy,
          exc_frames, caller_tracks, ret>>

(***************************************************************************)
(* Extended rational arithmetic (numpy float64 semantics, exact on finite  *)
(* values).                                                                *)
(***************************************************************************)
NaN == <<0, 0>>
PInf == <<1, 0>>
NInf == <<0 - 1, 0>>

Abs(n) == IF n < 0 THEN 0 - n ELSE n

Sign(n) == IF n < 0 THEN 0 - 1 ELSE IF n > 0 THEN 1 ELSE 0

RECURSIVE GCD(_, _)
GCD(a, b) == IF b = 0 THEN a ELSE GCD(b, a % b)

Norm(n, d) ==
    IF d = 0 THEN <<Sign(n), 0>>
    ELSE LET s == IF d < 0 THEN 0 - 1 ELSE 1
             g == GCD(Abs(n), Abs(d))
         IN  <<(s * n) \div g, (s * d) \div g>>

Num(i) == <<i, 1>>

IsNaN(x) == x = NaN

isfinite(x) == x[2] # 0

RAdd(x, y) ==
    IF IsNaN(x) \/ IsNaN(y) THEN NaN
    ELSE IF ~isfinite(x) /\ ~isfinite(y) THEN (IF x = y THEN x ELSE NaN)
    ELSE IF ~isfinite(x) THEN x
    ELSE IF ~isfinite(y) THEN y
    ELSE Norm(x[1] * y[2] + y[1] * x[2], x[2] * y[2])

RNeg(x) == <<0 - x[1], x[2]>>

RSub(x, y) == RAdd(x, RNeg(y))

RMul(x, y) ==
    IF IsNaN(x) \/ IsNaN(y) THEN NaN
    ELSE IF ~isfinite(x) \/ ~isfinite(y)
         THEN <<Sign(x[1]) * Sign(y[1]), 0>>
    ELSE Norm(x[1] * y[1], x[2] * y[2])

\* A variant of RDiv that gives 0 for a division by 0.
RDivZeroDefault(x, y) ==
    IF IsNaN(x) \/ IsNaN(y) THEN NaN
    ELSE IF ~isfinite(x) /\ ~isfinite(y) THEN NaN
    ELSE IF ~isfinite(x) THEN <<x[1] * (IF y[1] < 0 THEN 0 - 1 ELSE 1), 0>>
    ELSE IF ~isfinite(y) THEN Num(0)
    ELSE IF y[1] = 0 THEN Num(0)
    ELSE Norm(x[1] * y[2], x[2] * y[1])

RDiv(x, y) ==
    IF IsNaN(x) \/ IsNaN(y) THEN NaN
    ELSE IF ~isfinite(x) /\ ~isfinite(y) THEN NaN
    ELSE IF ~isfinite(x) THEN <<x[1] * (IF y[1] < 0 THEN 0 - 1 ELSE 1), 0>>
    ELSE IF ~isfinite(y) THEN Num(0)
    ELSE IF y[1] = 0 THEN <<Sign(x[1]), 0>>
    ELSE Norm(x[1] * y[2], x[2] * y[1])

\* x < y as numpy compares doubles: false as soon as one side is NaN.
RLt(x, y) ==
    IF IsNaN(x) \/ IsNaN(y) THEN FALSE
    ELSE IF ~isfinite(x) THEN x = NInf /\ y # NInf
    ELSE IF ~isfinite(y) THEN y = PInf
    ELSE x[1] * y[2] < y[1] * x[2]

RGt(x, y) == RLt(y, x)

\* x == y on doubles: NaN equals nothing, itself included.
REq(x, y) == ~IsNaN(x) /\ ~IsNaN(y) /\ x = y

(***************************************************************************)
(* Sequence helpers.                                                       *)
(***************************************************************************)
Range(s) == {s[i] : i \in DOMAIN s}

RECURSIVE Concat(_)
Concat(ss) == IF ss = <<>> THEN <<>> ELSE Head(ss) \o Concat(Tail(ss))

\* The elements of a finite set of integers in increasing order.
RECURSIVE SetToSortedSeq(_)
SetToSortedSeq(S) ==
    IF S = {} THEN <<>>
    ELSE LET m == CHOOSE x \in S : \A y \in S : x <= y
         IN  <<m>> \o SetToSortedSeq(S \ {m})

(***************************************************************************)
(* Tables.                                                                 *)
(***************************************************************************)
\* Placeholders held by a column that the table does not have.
NoNum == NaN
NoSeg == 0 - 2
NoExc == ""

Row(p, f, dm, am, nn) ==
    [particle |-> p, frame |-> f, donor_mass |-> dm, acceptor_mass |-> am,
     has_neighbor |-> nn, exc_type |-> NoExc, eff |-> NoNum, stoi |-> NoNum,
     d_mass |-> NoNum, a_mass |-> NoNum, a_seg |-> NoSeg]

RowLess(a, b) ==
    \/ a.particle < b.particle
    \/ a.particle = b.particle /\ a.frame < b.frame

\* A variant of SortTracks that orders the rows by the particle id only.
SortTracksByParticle(t) == SortSeq(t, LAMBDA a, b : a.particle < b.particle)

\* tracks.sort_values([("fret", "particle"), ("donor", time)], inplace=True)
SortTracks(t) == SortSeq(t, RowLess)

ParticlesOf(t) == {t[i].particle : i \in DOMAIN t}

\* The (particle, frame) keys of a table: its rows' identities.
Keys(t) == {<<t[i].particle, t[i].frame>> : i \in DOMAIN t}

RowsOfParticle(t, p) == SelectSeq(t, LAMBDA r : r.particle = p)

\* helper.split_dataframe(tracks, ("fret", "particle"), ..., sort=False):
\* the table cut where the particle id changes, one block per run, in the
\* order of the table.
RECURSIVE split_dataframe(_)
split_dataframe(t) ==
    IF t = <<>> THEN <<>>
    ELSE LET p == t[1].particle
             n == IF \E i \in DOMAIN t : t[i].particle # p
                  THEN (CHOOSE i \in DOMAIN t :
                           /\ t[i].particle # p
                           /\ \A j \in 1..(i - 1) : t[j].particle = p) - 1
                  ELSE Len(t)
         IN  <<SubSeq(t, 1, n)>> \o split_dataframe(SubSeq(t, n + 1, Len(t)))

(***************************************************************************)
(* Excitation sequence.                                                    *)
(***************************************************************************)
\* The excitation letters in the order pandas sorts categories.
CatOrder == <<"a", "d", "o">>

\* excitation_seq.dtype.categories: the letters of the sequence, sorted.
Categories(seq) == SelectSeq(CatOrder, LAMBDA c : c \in Range(seq))

\* A variant of ExcTypeOf that reads the pattern one position further.
ExcTypeOfShifted(seq, f) == seq[((f + 1) % Len(seq)) + 1]

\* flag_excitation_type: excitation_seq[frame % len(excitation_seq)]
ExcTypeOf(seq, f) == seq[(f % Len(seq)) + 1]

flag_excitation_type(t, seq) ==
    [i \in DOMAIN t |-> [t[i] EXCEPT !.exc_type = ExcTypeOf(seq, t[i].frame)]]

\* numeric_exc_type: the integer a category is recoded to (its position in
\* the sorted categories, from 0).
ExcCode(seq, c) ==
    LET cats == Categories(seq)
    IN  (CHOOSE i \in DOMAIN cats : cats[i] = c) - 1

\* np.nonzero(exc_cats == "a")[0]: the codes that stand for "a" (one code, or
\* none when the sequence has no "a").
acc_exc_num(seq) ==
    LET cats == Categories(seq)
    IN  {i - 1 : i \in {j \in DOMAIN cats : cats[j] = "a"}}

\* t[:, exc_type] == acc_exc_num, row by row.
IsAccRow(seq, r) == ExcCode(seq, r.exc_type) \in acc_exc_num(seq)

\* The comparison t[:, exc_type] == acc_exc_num over the blocks of a table
\* when the sequence has no "a", so that acc_exc_num is an empty array.  For
\* a block of one row the comparison broadcasts to an empty mask, and
\* indexing the block with it raises IndexError.  For a longer block the
\* shapes do not match: numpy before 1.25 answers False (no row is an
\* acceptor-excitation row), numpy from 1.25 on raises ValueError.  The set
\* holds the outcome of the loop over the blocks with the one numpy and with
\* the other, "none" standing for a loop that raises nothing.
CompareErrs(seq, blocks) ==
    IF "a" \in Range(seq) \/ blocks = <<>> THEN {"none"}
    ELSE {IF Len(blocks[1]) = 1 THEN "IndexError" ELSE "ValueError",
          IF \E b \in DOMAIN blocks : Len(blocks[b]) = 1
          THEN "IndexError" ELSE "none"}

\* A variant of ExcFramesOf that counts the positions from 1.
ExcFramesOfFromOne(seq) ==
    [k \in Range(seq) |->
       SetToSortedSeq({i : i \in {j \in DOMAIN seq : seq[j] = k}})]

\* The dictionary the excitation_seq setter builds: for every category k of
\* the sequence, np.nonzero(self._exc_seq == k)[0].
ExcFramesOf(seq) ==
    [k \in Range(seq) |->
       SetToSortedSeq({i - 1 : i \in {j \in DOMAIN seq : seq[j] = k}})]

\* excitation_seq = v (the property setter, which the constructor calls as
\* well): it stores the sequence and rebuilds _exc_frames; it has no check.
SetExcitationSeq(v) ==
    /\ excitation_seq' = v
    /\ exc_frames' = ExcFramesOf(v)
    /\ last_call' = "excitation_seq"
    /\ last_args' = [v |-> v]
    /\ err' = "none"
    /\ UNCHANGED <<tracks_orig, cols_orig, tracks, cols, cp_calls, legacy,
                   caller_tracks, ret>>

\* excitation_frames[k]: _exc_frames is a defaultdict, so a key it does not
\* hold is added with an empty array, which is returned.
LookupExcitationFrames(k) ==
    /\ ret' = IF k \in DOMAIN exc_frames THEN exc_frames[k] ELSE <<>>
    /\ exc_frames' = [x \in DOMAIN exc_frames \cup {k} |->
                        IF x \in DOMAIN exc_frames THEN exc_frames[x]
                        ELSE <<>>]
    /\ last_call' = "excitation_frames"
    /\ last_args' = [k |-> k]
    /\ err' = "none"
    /\ UNCHANGED <<excitation_seq, tracks_orig, cols_orig, tracks, cols,
                   cp_calls, legacy, caller_tracks>>

\* flag_excitation_type().  With a sequence of length 0 and a table with
\* rows, frames % 0 is NaN in every row and the lookup of NaN in the empty
\* sequence depends on the pandas version: it raises KeyError, or it gives
\* a column without a category in any row.
FlagExcitationType ==
    /\ IF Len(excitation_seq) = 0 /\ tracks # <<>>
       THEN \/ /\ err' = "KeyError"
               /\ UNCHANGED <<tracks, cols>>
            \/ /\ err' = "none"
               /\ tracks' = [i \in DOMAIN tracks |->
                               [tracks[i] EXCEPT !.exc_type = NoExc]]
               /\ cols' = cols \cup {"exc_type"}
       ELSE /\ err' = "none"
            /\ tracks' = flag_excitation_type(tracks, excitation_seq)
            /\ cols' = cols \cup {"exc_type"}
    /\ last_call' = "flag_excitation_type"
    /\ last_args' = <<>>
    /\ UNCHANGED <<exc_frames, caller_tracks, ret>>
    /\ UNCHANGED <<excitation_seq, tracks_orig, cols_orig, cp_calls, legacy>>

(***************************************************************************)
(* scipy.interpolate.interp1d as the two callers use it.  xs are the       *)
(* sample frames in increasing order, ys the sample values, xq the query.  *)
(* fill = "clamp" is fill_value=(y[0], y[-1]) with bounds_error=False;     *)
(* fill = "extrapolate" is fill_value="extrapolate".                       *)
(***************************************************************************)
Clip(i, lo, hi) == IF i < lo THEN lo ELSE IF i > hi THEN hi ELSE i

\* kind="linear": slope * (x_new - x_lo) + y_lo on the interval found by
\* searchsorted(x, x_new) clipped to [1, len(x) - 1].
InterpLinear(xs, ys, xq) ==
    LET n == Len(xs)
        idx == Clip(Cardinality({i \in 1..n : xs[i] < xq}), 1, n - 1)
        lo == idx
        hi == idx + 1
        slope == RDiv(RSub(ys[hi], ys[lo]), Num(xs[hi] - xs[lo]))
    IN  RAdd(RMul(slope, Num(xq - xs[lo])), ys[lo])

\* kind="nearest": y[searchsorted(x_bds, x_new, side="left")] with x_bds the
\* midpoints of neighbouring samples (a query on a midpoint takes the lower
\* sample).
InterpNearest(xs, ys, xq) ==
    LET n == Len(xs)
        idx == Clip(Cardinality({i \in 1..(n - 1) : xs[i] + xs[i + 1] < 2 * xq}),
                    0, n - 1)
    IN  ys[idx + 1]

InterpRaw(xs, ys, kind, xq) ==
    IF kind = "linear" THEN InterpLinear(xs, ys, xq)
    ELSE InterpNearest(xs, ys, xq)

\* interp1d(x, y, kind, fill_value=(y[0], y[-1]), assume_sorted=True,
\*          bounds_error=False)(xq)
InterpClamped(xs, ys, kind, xq) ==
    IF xq < xs[1] THEN ys[1]
    ELSE IF xq > xs[Len(xs)] THEN ys[Len(ys)]
    ELSE InterpRaw(xs, ys, kind, xq)

\* interp1d(x, y, kind, fill_value="extrapolate")(xq)
InterpExtrapolate(xs, ys, kind, xq) == InterpRaw(xs, ys, kind, xq)

(***************************************************************************)
(* SmFretAnalyzer.analyze                                                  *)
(***************************************************************************)
\* A variant of IsDirect that does not read the has_neighbor flag.
IsDirectIgnoreFlag(seq, has_nn, r) == IsAccRow(seq, r)

\* ad_p_mask & nn_p_mask: direct acceptor excitation and no near neighbour.
IsDirect(seq, has_nn, r) ==
    IsAccRow(seq, r) /\ (has_nn => ~r.has_neighbor)

\* a_direct = t[ad_p_mask & nn_p_mask, 1:3]
a_direct(seq, has_nn, t) == SelectSeq(t, LAMBDA r : IsDirect(seq, has_nn, r))

\* A variant of AMassOfParticle without the single-sample branch: fewer than
\* two samples give NaN.
AMassOfParticleNoSingle(seq, has_nn, kind, t) ==
    LET ad == a_direct(seq, has_nn, t)
        xs == [i \in DOMAIN ad |-> ad[i].frame]
        ys == [i \in DOMAIN ad |-> ad[i].acceptor_mass]
    IN  IF Len(ad) <= 1 THEN [i \in DOMAIN t |-> NaN]
        ELSE [i \in DOMAIN t |-> InterpClamped(xs, ys, kind, t[i].frame)]

\* A variant of AMassOfParticle that fills in 0 when there is no sample.
AMassOfParticleZeroFill(seq, has_nn, kind, t) ==
    LET ad == a_direct(seq, has_nn, t)
        xs == [i \in DOMAIN ad |-> ad[i].frame]
        ys == [i \in DOMAIN ad |-> ad[i].acceptor_mass]
    IN  IF Len(ad) = 0 THEN [i \in DOMAIN t |-> Num(0)]
        ELSE IF Len(ad) = 1 THEN [i \in DOMAIN t |-> ad[1].acceptor_mass]
        ELSE [i \in DOMAIN t |-> InterpClamped(xs, ys, kind, t[i].frame)]

\* The a_mass array of one particle's block t (rows in frame order).
AMassOfParticle(seq, has_nn, kind, t) ==
    LET ad == a_direct(seq, has_nn, t)
        xs == [i \in DOMAIN ad |-> ad[i].frame]
        ys == [i \in DOMAIN ad |-> ad[i].acceptor_mass]
    IN  IF Len(ad) = 0 THEN [i \in DOMAIN t |-> NaN]
        ELSE IF Len(ad) = 1 THEN [i \in DOMAIN t |-> ad[1].acceptor_mass]
        ELSE [i \in DOMAIN t |-> InterpClamped(xs, ys, kind, t[i].frame)]

\* A variant of AMassColumn that takes the samples of all particles together.
AMassColumnWholeTable(seq, has_nn, kind, t) ==
    AMassOfParticle(seq, has_nn, kind, t)

\* a_mass = np.concatenate(a_mass) over the blocks of split_dataframe.
AMassColumn(seq, has_nn, kind, t) ==
    LET blocks == split_dataframe(t)
    IN  Concat([b \in DOMAIN blocks |->
                  AMassOfParticle(seq, has_nn, kind, blocks[b])])

\* A variant of AnalyzeRow that adds the acceptor brightness to a kept d_mass.
AnalyzeRowAccumulate(r, am, keep, invalid_nan) ==
    LET dm == IF keep THEN RAdd(r.d_mass, r.acceptor_mass)
              ELSE RAdd(r.donor_mass, r.acceptor_mass)
        e == RDiv(r.acceptor_mass, dm)
        s == RDiv(dm, RAdd(dm, am))
        nd == invalid_nan /\ r.exc_type # "d"
    IN  [r EXCEPT !.eff = IF nd THEN NaN ELSE e,
                  !.stoi = IF nd THEN NaN ELSE s,
                  !.d_mass = IF nd THEN NaN ELSE dm,
                  !.a_mass = am]

\* A variant of AnalyzeRow whose invalid_nan overwrites the
\* acceptor-excitation rows only.
AnalyzeRowAcceptorOnly(r, am, keep, invalid_nan) ==
    LET dm == IF keep THEN r.d_mass ELSE RAdd(r.donor_mass, r.acceptor_mass)
        e == RDiv(r.acceptor_mass, dm)
        s == RDiv(dm, RAdd(dm, am))
        nd == invalid_nan /\ r.exc_type = "a"
    IN  [r EXCEPT !.eff = IF nd THEN NaN ELSE e,
                  !.stoi = IF nd THEN NaN ELSE s,
                  !.d_mass = IF nd THEN NaN ELSE dm,
                  !.a_mass = am]

\* A variant of AnalyzeRow whose stoichiometry takes a NaN a_mass as 0.
AnalyzeRowNanAsZero(r, am, keep, invalid_nan) ==
    LET dm == IF keep THEN r.d_mass ELSE RAdd(r.donor_mass, r.acceptor_mass)
        e == RDiv(r.acceptor_mass, dm)
        s == RDiv(dm, RAdd(dm, IF IsNaN(am) THEN Num(0) ELSE am))
        nd == invalid_nan /\ r.exc_type # "d"
    IN  [r EXCEPT !.eff = IF nd THEN NaN ELSE e,
                  !.stoi = IF nd THEN NaN ELSE s,
                  !.d_mass = IF nd THEN NaN ELSE dm,
                  !.a_mass = am]

\* One row's eff, stoi, d_mass and a_mass given its interpolated a_mass.
AnalyzeRow(r, am, keep, invalid_nan) ==
    LET dm == IF keep THEN r.d_mass ELSE RAdd(r.donor_mass, r.acceptor_mass)
        e == RDiv(r.acceptor_mass, dm)
        s == RDiv(dm, RAdd(dm, am))
        nd == invalid_nan /\ r.exc_type # "d"
    IN  [r EXCEPT !.eff = IF nd THEN NaN ELSE e,
                  !.stoi = IF nd THEN NaN ELSE s,
                  !.d_mass = IF nd THEN NaN ELSE dm,
                  !.a_mass = am]

\* A variant of AnalyzedTable that, with invalid_nan, returns the
\* donor-excitation rows only.
AnalyzedTableDonorOnly(seq, cs, t, keep_d_mass, invalid_nan, kind) ==
    LET st == flag_excitation_type(SortTracks(t), seq)
        am == AMassColumn(seq, "has_neighbor" \in cs, kind, st)
        keep == keep_d_mass /\ "d_mass" \in cs
        rows == [i \in DOMAIN st |->
                   AnalyzeRow(st[i], am[i], keep, invalid_nan)]
    IN  IF invalid_nan THEN SelectSeq(rows, LAMBDA r : r.exc_type = "d")
        ELSE rows

AnalyzedTable(seq, cs, t, keep_d_mass, invalid_nan, kind) ==
    LET st == flag_excitation_type(SortTracks(t), seq)
        am == AMassColumn(seq, "has_neighbor" \in cs, kind, st)
        keep == keep_d_mass /\ "d_mass" \in cs
    IN  [i \in DOMAIN st |-> AnalyzeRow(st[i], am[i], keep, invalid_nan)]

\* analyze(keep_d_mass, invalid_nan, a_mass_interp).  On a table without
\* rows np.concatenate of the empty list raises ValueError after the sort
\* and flag_excitation_type have run; so they have when the comparison with
\* acc_exc_num raises.
Analyze(keep_d_mass, invalid_nan, kind) ==
    /\ IF tracks = <<>>
       THEN /\ tracks' = tracks
            /\ cols' = cols \cup {"exc_type"}
            /\ err' = "ValueError"
       ELSE \E e \in CompareErrs(excitation_seq,
                                 split_dataframe(SortTracks(tracks))) :
              IF e # "none"
              THEN /\ tracks' = flag_excitation_type(SortTracks(tracks),
                                                     excitation_seq)
                   /\ cols' = cols \cup {"exc_type"}
                   /\ err' = e
              ELSE /\ tracks' = AnalyzedTable(excitation_seq, cols, tracks,
                                              keep_d_mass, invalid_nan, kind)
                   /\ cols' = cols \cup {"exc_type", "eff", "stoi", "d_mass",
                                         "a_mass"}
                   /\ err' = "none"
    /\ last_call' = "analyze"
    /\ last_args' = [keep_d_mass |-> keep_d_mass, invalid_nan |-> invalid_nan,
                     a_mass_interp |-> kind]
    /\ UNCHANGED <<exc_frames, caller_tracks, ret>>
    /\ UNCHANGED <<excitation_seq, tracks_orig, cols_orig, cp_calls, legacy>>

(***************************************************************************)
(* sdt.fret.SmFretAnalyzer.stoichiometry (the older implementation).  It   *)
(* works on the caller's table; the model applies it to the table the      *)
(* analyzer was built from and keeps its result in the variable legacy:    *)
(* per row the local a_mass and the "fret_stoi" column.                    *)
(***************************************************************************)
\* a_direct_mask = np.in1d(a[:, 1] % len(self.desc), self.acc)
OldIsDirect(seq, r) == ExcTypeOf(seq, r.frame) = "a"

\* a_mass_func(d[:, 1]) for the rows of one particle.
OldAMassAt(seq, interp, t, p, f) ==
    LET ad == SortTracks(SelectSeq(t, LAMBDA r : r.particle = p
                                                 /\ OldIsDirect(seq, r)))
        xs == [i \in DOMAIN ad |-> ad[i].frame]
        ys == [i \in DOMAIN ad |-> ad[i].acceptor_mass]
    IN  IF Len(ad) = 0 THEN NaN
        ELSE IF Len(ad) = 1 THEN ad[1].acceptor_mass
        ELSE InterpExtrapolate(xs, ys, interp, f)

OldStoiRow(seq, interp, t, r) ==
    LET n == Cardinality({i \in DOMAIN t : t[i].particle = r.particle
                                           /\ OldIsDirect(seq, t[i])})
        am == OldAMassAt(seq, interp, t, r.particle, r.frame)
        total == RAdd(r.donor_mass, r.acceptor_mass)
        s == RDiv(total, RAdd(total, am))
    IN  [particle |-> r.particle, frame |-> r.frame, a_mass |-> am,
         fret_stoi |-> IF n = 0 \/ OldIsDirect(seq, r) THEN NaN ELSE s]

StoichiometryOld(interp) ==
    /\ legacy' = [i \in DOMAIN tracks_orig |->
                    OldStoiRow(excitation_seq, interp, tracks_orig,
                               tracks_orig[i])]
    /\ last_call' = "stoichiometry"
    /\ last_args' = [interp |-> interp]
    /\ err' = "none"
    /\ UNCHANGED <<exc_frames, caller_tracks, ret>>
    /\ UNCHANGED <<excitation_seq, tracks_orig, cols_orig, tracks, cols,
                   cp_calls>>


(***************************************************************************)
(* SmFretAnalyzer.segment_a_mass                                           *)
(***************************************************************************)
\* seg = np.empty(...): the value of an entry the numbering loop never
\* writes.  With changepoints in increasing order every entry is written.
Uninit == 0 - 99

\* m_a_pos = np.nonzero(acc_mask)[0]: the positions (from 0) of the
\* acceptor-excitation rows in the particle's block.
m_a_pos(seq, t) ==
    SetToSortedSeq({i - 1 : i \in {j \in DOMAIN t : IsAccRow(seq, t[j])}})

\* m_a = trc_p[acc_mask, 0]: the a_mass values of the acceptor-excitation rows.
m_a(seq, t) ==
    LET mpos == m_a_pos(seq, t)
    IN  [j \in DOMAIN mpos |-> t[mpos[j] + 1].a_mass]

\* A variant of cp_pos without the forwarding: the boundary is put at the
\* acceptor sample of the changepoint itself.
cp_pos_at_changepoint(mpos, cp) == [k \in DOMAIN cp |-> mpos[cp[k] + 1]]

\* A variant of cp_pos that puts the boundary right after the acceptor
\* sample of the changepoint.
cp_pos_after_changepoint(mpos, cp) ==
    [k \in DOMAIN cp |-> mpos[cp[k] + 1] + 1]

\* cp_pos = m_a_pos[np.maximum(np.add(cp, -1), 0)] + 1
cp_pos(mpos, cp) ==
    [k \in DOMAIN cp |->
        mpos[(IF cp[k] - 1 > 0 THEN cp[k] - 1 ELSE 0) + 1] + 1]

\* A variant of NumberSegments that numbers the segments from 1.
RECURSIVE NumberSegmentsFromOne(_, _, _, _)
NumberSegmentsFromOne(seg, starts, ends, i) ==
    IF i > Len(starts) - 1 THEN seg
    ELSE NumberSegmentsFromOne(
             [x \in DOMAIN seg |->
                 IF starts[i + 1] <= x /\ x < ends[i + 1] THEN i + 1 ELSE seg[x]],
             starts, ends, i + 1)

\* for i, s, e in zip(count(), chain([0], cp_pos), chain(cp_pos, [len])):
\*     seg[s:e] = i
\* run from iteration i on the array seg (indexed from 0).
RECURSIVE NumberSegments(_, _, _, _)
NumberSegments(seg, starts, ends, i) ==
    IF i > Len(starts) - 1 THEN seg
    ELSE LET s == starts[i + 1]
             e == ends[i + 1]
         IN  NumberSegments([x \in DOMAIN seg |->
                               IF s <= x /\ x < e THEN i ELSE seg[x]],
                            starts, ends, i + 1)

\* A variant of DetectorCalled that tests np.isnan in place of np.isfinite.
DetectorCalledNanOnly(seq, t) ==
    LET ma == m_a(seq, t)
    IN  \A j \in DOMAIN ma : ~IsNaN(ma[j])

\* not np.any(~np.isfinite(m_a)): whether segment_a_mass calls
\* cp_detector.find_changepoints for a block.
DetectorCalled(seq, t) ==
    LET ma == m_a(seq, t)
    IN  \A j \in DOMAIN ma : isfinite(ma[j])

\* The a_seg array of one particle's block t, cp being what the detector
\* returned for m_a (read only when the detector is called).
SegmentsOfParticle(seq, t, cp) ==
    LET n == Len(t)
        mpos == m_a_pos(seq, t)
        ma == m_a(seq, t)
    IN  IF ~DetectorCalled(seq, t)
        THEN [i \in 1..n |-> 0 - 1]
        ELSE IF Len(cp) = 0 THEN [i \in 1..n |-> 0]
        ELSE LET cpp == cp_pos(mpos, cp)
                 seg == NumberSegments([x \in 0..(n - 1) |-> Uninit],
                                       <<0>> \o cpp, cpp \o <<n>>, 0)
             IN  [i \in 1..n |-> seg[i - 1]]

\* What cp_detector.find_changepoints may return for a series of length n:
\* cut indices in increasing order, each within [1, n - 1].
find_changepoints(n) == {SetToSortedSeq(S) : S \in SUBSET (1..(n - 1))}

\* The possible answers of the detector for the blocks, one per block, in
\* block order; the empty answer stands where the detector is not called.
RECURSIVE DetectorAnswers(_, _)
DetectorAnswers(seq, blocks) ==
    IF blocks = <<>> THEN {<<>>}
    ELSE LET here == IF DetectorCalled(seq, Head(blocks))
                     THEN find_changepoints(Len(m_a(seq, Head(blocks))))
                     ELSE {<<>>}
         IN  {<<c>> \o rest : c \in here,
                              rest \in DetectorAnswers(seq, Tail(blocks))}

\* self.tracks["fret", "a_seg"] = np.concatenate(segments)
SegmentedTable(seq, st, cps) ==
    LET blocks == split_dataframe(st)
        segs == Concat([b \in DOMAIN blocks |->
                          SegmentsOfParticle(seq, blocks[b], cps[b])])
    IN  [i \in DOMAIN st |-> [st[i] EXCEPT !.a_seg = segs[i]]]

\* segment_a_mass(**kwargs).  A missing column raises KeyError after the
\* sort; a table without rows makes np.concatenate raise ValueError.  The
\* detector's answers of a call that raises are not kept.
SegmentAMass ==
    /\ IF ~({"a_mass", "exc_type"} \subseteq cols)
       THEN /\ tracks' = SortTracks(tracks)
            /\ err' = "KeyError"
            /\ UNCHANGED <<cols, cp_calls>>
       ELSE IF tracks = <<>>
       THEN /\ err' = "ValueError"
            /\ cp_calls' = <<>>
            /\ UNCHANGED <<tracks, cols>>
       ELSE LET st == SortTracks(tracks)
                blocks == split_dataframe(st)
            IN  \E e \in CompareErrs(excitation_seq, blocks) :
                  IF e # "none"
                  THEN /\ tracks' = st
                       /\ err' = e
                       /\ cp_calls' = <<>>
                       /\ UNCHANGED cols
                  ELSE \E cps \in DetectorAnswers(excitation_seq, blocks) :
                         /\ tracks' = SegmentedTable(excitation_seq, st, cps)
                         /\ cols' = cols \cup {"a_seg"}
                         /\ cp_calls' =
                              LET called ==
                                    {b \in DOMAIN blocks :
                                       DetectorCalled(excitation_seq,
                                                      blocks[b])}
                              IN  [q \in {blocks[b][1].particle :
                                             b \in called} |->
                                     cps[CHOOSE b \in called :
                                            blocks[b][1].particle = q]]
                         /\ err' = "none"
    /\ last_call' = "segment_a_mass"
    /\ last_args' = <<>>
    /\ UNCHANGED <<exc_frames, caller_tracks, ret>>
    /\ UNCHANGED <<excitation_seq, tracks_orig, cols_orig, legacy>>

(***************************************************************************)
(* SmFretAnalyzer.acceptor_bleach_step                                     *)
(***************************************************************************)
\* A variant of median that gives 0 for an empty selection.
median_empty_as_zero(vals) ==
    IF Len(vals) = 0 THEN Num(0)
    ELSE IF \E i \in DOMAIN vals : IsNaN(vals[i]) THEN NaN
    ELSE LET sv == SortSeq(vals, RLt)
             n == Len(sv)
         IN  IF n % 2 = 1 THEN sv[(n + 1) \div 2]
             ELSE RDiv(RAdd(sv[n \div 2], sv[(n \div 2) + 1]), Num(2))

\* np.median: NaN for an empty selection or one holding a NaN, else the
\* middle value, or the mean of the two middle values.
median(vals) ==
    IF Len(vals) = 0 \/ \E i \in DOMAIN vals : IsNaN(vals[i]) THEN NaN
    ELSE LET sv == SortSeq(vals, RLt)
             n == Len(sv)
         IN  IF n % 2 = 1 THEN sv[(n + 1) \div 2]
             ELSE RDiv(RAdd(sv[n \div 2], sv[(n \div 2) + 1]), Num(2))

\* cps = np.nonzero(np.diff(trc_p[:, 2]))[0] + 1: the positions (from 0)
\* whose a_seg differs from the one before.
step_cps(t) ==
    SetToSortedSeq({i \in 1..(Len(t) - 1) : t[i + 1].a_seg # t[i].a_seg})

\* np.array_split(trc_p, cps): the block cut at the positions cps.
array_split(t, cps) ==
    LET b == <<0>> \o cps \o <<Len(t)>>
    IN  [k \in 1..(Len(cps) + 1) |-> SubSeq(t, b[k] + 1, b[k + 1])]

\* med = [np.median(s[s[:, 1] == acc_exc_num, 0]) for s in split]
step_medians(seq, t) ==
    LET split == array_split(t, step_cps(t))
    IN  [k \in DOMAIN split |->
           LET acc == SelectSeq(split[k], LAMBDA r : IsAccRow(seq, r))
           IN  median([j \in DOMAIN acc |-> acc[j].a_mass])]

\* A variant of StepAccepted that tests every median, the first included.
StepAcceptedAllMedians(seq, t, brightness_thresh) ==
    LET med == step_medians(seq, t)
    IN  /\ Len(med) > 1
        /\ \A k \in 1..Len(med) : RLt(med[k], brightness_thresh)

\* len(med) > 1 and all(m < brightness_thresh for m in med[1:])
StepAccepted(seq, t, brightness_thresh) ==
    LET med == step_medians(seq, t)
    IN  /\ Len(med) > 1
        /\ \A k \in 2..Len(med) : RLt(med[k], brightness_thresh)

\* A variant of GoodOfParticle that keeps the rows with a_seg = -1.
GoodOfParticleKeepSentinel(seq, t, brightness_thresh, truncate) ==
    IF StepAccepted(seq, t, brightness_thresh)
    THEN IF truncate
         THEN [i \in DOMAIN t |-> i - 1 < step_cps(t)[1]]
         ELSE [i \in DOMAIN t |-> TRUE]
    ELSE [i \in DOMAIN t |-> t[i].a_seg = 0 - 1]

\* A variant of GoodOfParticle whose truncation keeps one row too many.
GoodOfParticleOneMore(seq, t, brightness_thresh, truncate) ==
    IF StepAccepted(seq, t, brightness_thresh)
    THEN IF truncate
         THEN [i \in DOMAIN t |-> i - 1 <= step_cps(t)[1]]
         ELSE [i \in DOMAIN t |-> TRUE]
    ELSE [i \in DOMAIN t |-> FALSE]

\* A variant of GoodOfParticle whose truncation keeps the rows up to the
\* end of the second segment.
GoodOfParticleTwoSegments(seq, t, brightness_thresh, truncate) ==
    IF StepAccepted(seq, t, brightness_thresh)
    THEN IF truncate
         THEN LET cps == step_cps(t)
                  e == IF Len(cps) >= 2 THEN cps[2] ELSE Len(t)
              IN  [i \in DOMAIN t |-> i - 1 < e]
         ELSE [i \in DOMAIN t |-> TRUE]
    ELSE [i \in DOMAIN t |-> FALSE]

\* The boolean array g of one particle's block.
GoodOfParticle(seq, t, brightness_thresh, truncate) ==
    IF StepAccepted(seq, t, brightness_thresh)
    THEN IF truncate
         THEN [i \in DOMAIN t |-> i - 1 < step_cps(t)[1]]
         ELSE [i \in DOMAIN t |-> TRUE]
    ELSE [i \in DOMAIN t |-> FALSE]

\* np.concatenate(good) over the blocks of split_dataframe.
GoodMask(seq, st, brightness_thresh, truncate) ==
    LET blocks == split_dataframe(st)
    IN  Concat([b \in DOMAIN blocks |->
                  GoodOfParticle(seq, blocks[b], brightness_thresh, truncate)])

\* self.tracks[mask]
ApplyMask(t, mask) ==
    LET idx == SetToSortedSeq({i \in DOMAIN t : mask[i]})
    IN  [k \in DOMAIN idx |-> t[idx[k]]]

\* self.tracks[np.concatenate(good)] for the sorted table st.
BleachStepTable(seq, st, brightness_thresh, truncate) ==
    ApplyMask(st, GoodMask(seq, st, brightness_thresh, truncate))

\* The arrays acceptor_bleach_step compares with acc_exc_num: the pieces of
\* np.array_split of every block, in the order of the loops.
StepPieces(st) ==
    LET blocks == split_dataframe(st)
    IN  Concat([b \in DOMAIN blocks |->
                  array_split(blocks[b], step_cps(blocks[b]))])

\* acceptor_bleach_step(brightness_thresh, truncate).  A missing column raises
\* KeyError after the sort; a table without rows makes np.concatenate raise
\* ValueError.
AcceptorBleachStep(brightness_thresh, truncate) ==
    /\ IF ~({"a_mass", "exc_type", "a_seg"} \subseteq cols)
       THEN /\ tracks' = SortTracks(tracks)
            /\ err' = "KeyError"
       ELSE IF tracks = <<>>
       THEN /\ err' = "ValueError"
            /\ UNCHANGED tracks
       ELSE \E e \in CompareErrs(excitation_seq,
                                 StepPieces(SortTracks(tracks))) :
              IF e # "none"
              THEN /\ tracks' = SortTracks(tracks)
                   /\ err' = e
              ELSE /\ tracks' = BleachStepTable(excitation_seq,
                                                SortTracks(tracks),
                                                brightness_thresh, truncate)
                   /\ err' = "none"
    /\ last_call' = "acceptor_bleach_step"
    /\ last_args' = [brightness_thresh |-> brightness_thresh,
                     truncate |-> truncate]
    /\ UNCHANGED <<exc_frames, caller_tracks, ret>>
    /\ UNCHANGED <<excitation_seq, tracks_orig, cols_orig, cols, cp_calls,
                   legacy>>

(***************************************************************************)
(* SmFretAnalyzer.eval, query, filter_particles.  An expression is a       *)
(* comparison of one column with a number: [col, op, val].                 *)
(***************************************************************************)
InputCols == {"particle", "frame", "donor_mass", "acceptor_mass"}

ColValue(r, col) ==
    CASE col = "particle" -> Num(r.particle)
      [] col = "frame" -> Num(r.frame)
      [] col = "donor_mass" -> r.donor_mass
      [] col = "acceptor_mass" -> r.acceptor_mass
      [] col = "eff" -> r.eff
      [] col = "stoi" -> r.stoi
      [] col = "d_mass" -> r.d_mass
      [] col = "a_mass" -> r.a_mass
      [] col = "a_seg" -> Num(r.a_seg)

ExprHolds(r, expr) ==
    CASE expr.op = ">" -> RGt(ColValue(r, expr.col), expr.val)
      [] expr.op = "<" -> RLt(ColValue(r, expr.col), expr.val)
      [] expr.op = "==" -> REq(ColValue(r, expr.col), expr.val)

\* Whether DataFrame.eval raises: the expression names a column the table
\* does not have.  eval returns early on a table without rows.
EvalRaises(t, cs, expr) ==
    t # <<>> /\ expr.col \notin (InputCols \cup cs)

\* eval(expr): the boolean Series, one entry per row.
EvalMask(t, expr) == [i \in DOMAIN t |-> ExprHolds(t[i], expr)]

\* The member of cols that stands for flattened column labels: while eval
\* runs DataFrame.eval the labels of tracks are the flattened ones.
FlatMark == "flattened"

\* A variant of EvalCall that restores the column labels only when
\* DataFrame.eval returns.
EvalCallNoFinally(t, cs, expr) ==
    IF EvalRaises(t, cs, expr)
    THEN [err |-> "UndefinedVariableError", mask |-> <<>>,
          cols |-> cs \cup {FlatMark}]
    ELSE [err |-> "none", mask |-> EvalMask(t, expr), cols |-> cs]

\* The outcome of eval(expr) on the table t with the columns cs: the
\* exception, the mask returned when there is none, and the column labels
\* the table is left with, which the finally clause sets back to the old
\* ones.
EvalCall(t, cs, expr) ==
    IF EvalRaises(t, cs, expr)
    THEN [err |-> "UndefinedVariableError", mask |-> <<>>,
          cols |-> (cs \cup {FlatMark}) \ {FlatMark}]
    ELSE [err |-> "none", mask |-> EvalMask(t, expr),
          cols |-> (cs \cup {FlatMark}) \ {FlatMark}]

\* eval(expr): the mask is returned, tracks keeps its rows.
Eval(expr) ==
    LET oc == EvalCall(tracks, cols, expr)
    IN  /\ err' = oc.err
        /\ ret' = IF oc.err = "none" THEN oc.mask ELSE ret
        /\ cols' = oc.cols
        /\ last_call' = "eval"
        /\ last_args' = [expr |-> expr]
        /\ UNCHANGED <<excitation_seq, tracks_orig, cols_orig, tracks,
                       cp_calls, legacy, exc_frames, caller_tracks>>

\* query(expr): tracks = tracks[eval(expr)]
Query(expr) ==
    LET oc == EvalCall(tracks, cols, expr)
    IN  /\ IF oc.err # "none"
           THEN /\ err' = oc.err
                /\ UNCHANGED tracks
           ELSE /\ tracks' = ApplyMask(tracks, oc.mask)
                /\ err' = "none"
        /\ cols' = oc.cols
        /\ last_call' = "query"
        /\ last_args' = [expr |-> expr]
        /\ UNCHANGED <<exc_frames, caller_tracks, ret>>
        /\ UNCHANGED <<excitation_seq, tracks_orig, cols_orig, cp_calls,
                       legacy>>

\* np.unique(p, return_counts=True) for the particle ids of the rows rows.
UniqueParticles(rows) == SetToSortedSeq(ParticlesOf(rows))

UniqueCounts(rows) ==
    LET u == UniqueParticles(rows)
    IN  [i \in DOMAIN u |->
           Cardinality({j \in DOMAIN rows : rows[j].particle = u[i]})]

\* A variant of good_p that asks for more than min_count matching rows.
good_p_more(t, expr, min_count) ==
    LET matching == ApplyMask(t, EvalMask(t, expr))
        p == UniqueParticles(matching)
        c == UniqueCounts(matching)
    IN  {p[i] : i \in {j \in DOMAIN p : c[j] > min_count}}

\* good_p = p[c >= min_count]
good_p(t, expr, min_count) ==
    LET matching == ApplyMask(t, EvalMask(t, expr))
        p == UniqueParticles(matching)
        c == UniqueCounts(matching)
        p2 == SelectSeq(t, LAMBDA r : r.particle \in Range(p))
        need == IF min_count <= 0
                THEN [i \in DOMAIN UniqueCounts(p2) |->
                         UniqueCounts(p2)[i] + min_count]
                ELSE [i \in DOMAIN p |-> min_count]
    IN  {p[i] : i \in {j \in DOMAIN p : c[j] >= need[j]}}

FilterParticles(expr, min_count) ==
    LET oc == EvalCall(tracks, cols, expr)
    IN  /\ IF oc.err # "none"
           THEN /\ err' = oc.err
                /\ UNCHANGED tracks
           ELSE /\ tracks' = SelectSeq(tracks, LAMBDA r :
                                  r.particle \in good_p(tracks, expr,
                                                        min_count))
                /\ err' = "none"
        /\ cols' = oc.cols
        /\ last_call' = "filter_particles"
        /\ last_args' = [expr |-> expr, min_count |-> min_count]
        /\ UNCHANGED <<exc_frames, caller_tracks, ret>>
        /\ UNCHANGED <<excitation_seq, tracks_orig, cols_orig, cp_calls,
                       legacy>>

\* A variant of Reset that brings back the rows and keeps the columns.
ResetRowsOnly ==
    /\ tracks' = tracks_orig
    /\ cols' = cols
    /\ err' = "none"
    /\ last_call' = "reset"
    /\ last_args' = <<>>
    /\ UNCHANGED <<exc_frames, caller_tracks, ret>>
    /\ UNCHANGED <<excitation_seq, tracks_orig, cols_orig, cp_calls, legacy>>

\* reset(): tracks = tracks_orig.copy()
Reset ==
    /\ tracks' = tracks_orig
    /\ cols' = cols_orig
    /\ err' = "none"
    /\ last_call' = "reset"
    /\ last_args' = <<>>
    /\ UNCHANGED <<exc_frames, caller_tracks, ret>>
    /\ UNCHANGED <<excitation_seq, tracks_orig, cols_orig, cp_calls, legacy>>


(***************************************************************************)
(* Input tables.  A trajectory of particle p has l rows at the frames      *)
(* s, s+1, ..., s+l-1; every row draws its donor mass, acceptor mass and   *)
(* has_neighbor flag from the given sets.  In TrajectoriesByExc the        *)
(* acceptor mass of a row is drawn from AVa on the "a" frames of the       *)
(* excitation sequence and from AVo on the other frames.                   *)
(***************************************************************************)
Trajectories(p, Starts, Lens, DV, AV, NNV) ==
    UNION {{[i \in 1..sl[2] |->
               Row(p, sl[1] + i - 1, dm[i], am[i], nn[i])] :
            dm \in [1..sl[2] -> DV], am \in [1..sl[2] -> AV],
            nn \in [1..sl[2] -> NNV]} : sl \in Starts \X Lens}

TrajectoriesByExc(seq, p, Starts, Lens, DV, AVa, AVo) ==
    {t \in Trajectories(p, Starts, Lens, DV, AVa \cup AVo, {FALSE}) :
        \A i \in DOMAIN t :
            t[i].acceptor_mass \in
                IF ExcTypeOf(seq, t[i].frame) = "a" THEN AVa ELSE AVo}

\* The state after SmFretAnalyzer(tracks, excitation_seq): both snapshots are
\* copies of the caller's table.
Constructed(seq, t, cs) ==
    /\ caller_tracks = t
    /\ excitation_seq = seq
    /\ exc_frames = ExcFramesOf(seq)
    /\ ret = <<>>
    /\ tracks_orig = t
    /\ cols_orig = cs
    /\ tracks = t
    /\ cols = cs
    /\ cp_calls = <<>>
    /\ last_call = "__init__"
    /\ last_args = <<>>
    /\ err = "none"
    /\ legacy = <<>>

(***************************************************************************)
(* SpecInterp: the interpolation of the acceptor brightness, by analyze    *)
(* and by the older stoichiometry, on one trajectory.                      *)
(***************************************************************************)
MaxLenI == 4

PatternsI == {<<"d", "a">>, <<"a", "d">>, <<"d", "a", "o">>}

AccValsI == {Num(10), Num(40)}

InitInterp ==
    \E seq \in PatternsI, cs \in {{}, {"has_neighbor"}} :
      \E t \in Trajectories(1, {0}, 1..MaxLenI, {Num(100)}, AccValsI,
                            IF cs = {} THEN {FALSE} ELSE BOOLEAN) :
        Constructed(seq, t, cs)

NextInterp ==
    \/ \E inv \in BOOLEAN, kind \in {"linear", "nearest"} :
          Analyze(FALSE, inv, kind)
    \/ \E interp \in {"linear", "nearest"} : StoichiometryOld(interp)

SpecInterp == InitInterp /\ [][NextInterp]_vars


(***************************************************************************)
(* Properties of the interpolation (SpecInterp).                           *)
(***************************************************************************)
\* The rows of particle p in table t that are usable direct-acceptor samples
\* for analyze: the frame is an "a" frame of the excitation sequence and,
\* when the table has the has_neighbor column, the flag is not set.
UsableSamples(t, cs, p) ==
    {i \in DOMAIN t :
        /\ t[i].particle = p
        /\ excitation_seq[(t[i].frame % Len(excitation_seq)) + 1] = "a"
        /\ ~("has_neighbor" \in cs /\ t[i].has_neighbor)}

\* The same for the older stoichiometry, which knows no has_neighbor flag.
DirectSamples(t, p) == UsableSamples(t, {}, p)

FirstSample(t, U) == CHOOSE i \in U : \A j \in U : t[i].frame <= t[j].frame

LastSample(t, U) == CHOOSE i \in U : \A j \in U : t[i].frame >= t[j].frame

AnalyzeDone == last_call = "analyze" /\ err = "none"

\* analyze: with 2 or more usable samples, a_mass before the first sample is
\* the first sample's value and after the last sample the last one's.
C9_AnalyzeClamped ==
    AnalyzeDone =>
      \A p \in ParticlesOf(tracks) :
        LET U == UsableSamples(tracks, cols, p)
        IN  Cardinality(U) >= 2 =>
              \A i \in DOMAIN tracks :
                tracks[i].particle = p =>
                  /\ tracks[i].frame < tracks[FirstSample(tracks, U)].frame
                       => tracks[i].a_mass
                            = tracks[FirstSample(tracks, U)].acceptor_mass
                  /\ tracks[i].frame > tracks[LastSample(tracks, U)].frame
                       => tracks[i].a_mass
                            = tracks[LastSample(tracks, U)].acceptor_mass

\* The older stoichiometry: the same statement for its interpolated a_mass.
C9_LegacyClamped ==
    legacy # <<>> =>
      \A p \in ParticlesOf(tracks_orig) :
        LET U == DirectSamples(tracks_orig, p)
        IN  Cardinality(U) >= 2 =>
              \A i \in DOMAIN tracks_orig :
                tracks_orig[i].particle = p =>
                  /\ tracks_orig[i].frame
                        < tracks_orig[FirstSample(tracks_orig, U)].frame
                       => legacy[i].a_mass
                            = tracks_orig[FirstSample(tracks_orig, U)].acceptor_mass
                  /\ tracks_orig[i].frame
                        > tracks_orig[LastSample(tracks_orig, U)].frame
                       => legacy[i].a_mass
                            = tracks_orig[LastSample(tracks_orig, U)].acceptor_mass

\* C9: with 2 or more usable direct-acceptor samples the interpolated
\* acceptor brightness at a frame before the first sample equals the first
\* sample's value and at a frame after the last sample the last sample's
\* value, for analyze and for the older stoichiometry.
C9_ClampedExtrapolation == C9_AnalyzeClamped /\ C9_LegacyClamped

\* C10: with exactly one usable direct-acceptor sample the interpolated
\* acceptor brightness equals that sample's acceptor brightness at every row
\* of the particle, for analyze and for the older stoichiometry.
C10_SingleSample ==
    /\ AnalyzeDone =>
         \A p \in ParticlesOf(tracks) :
           LET U == UsableSamples(tracks, cols, p)
           IN  Cardinality(U) = 1 =>
                 \A i \in DOMAIN tracks :
                   tracks[i].particle = p =>
                     tracks[i].a_mass
                       = tracks[FirstSample(tracks, U)].acceptor_mass
    /\ legacy # <<>> =>
         \A p \in ParticlesOf(tracks_orig) :
           LET U == DirectSamples(tracks_orig, p)
           IN  Cardinality(U) = 1 =>
                 \A i \in DOMAIN tracks_orig :
                   tracks_orig[i].particle = p =>
                     legacy[i].a_mass
                       = tracks_orig[FirstSample(tracks_orig, U)].acceptor_mass

\* Witness of C10: analyze and the older stoichiometry have both run on a
\* particle with one usable sample that has rows before and after it.
C10_Witness ==
    /\ AnalyzeDone
    /\ legacy # <<>>
    /\ \E p \in ParticlesOf(tracks) :
         LET U == UsableSamples(tracks, cols, p)
         IN  /\ Cardinality(U) = 1
             /\ Cardinality(DirectSamples(tracks_orig, p)) = 1
             /\ \E i, j \in DOMAIN tracks :
                  /\ tracks[i].particle = p
                  /\ tracks[j].particle = p
                  /\ tracks[i].frame < tracks[FirstSample(tracks, U)].frame
                  /\ tracks[j].frame > tracks[FirstSample(tracks, U)].frame
                  /\ tracks[i].a_mass = Num(40)


(***************************************************************************)
(* SpecSeg: analyze followed by segment_a_mass on a long trajectory         *)
(* (particle 1) and an optional short one (particle 2).                    *)
(***************************************************************************)
MaxLenS == 5

MaxLen2S == 2

PatternsS == {<<"a", "d">>, <<"d", "a">>}

InitSeg ==
    \E seq \in PatternsS :
      \E t1 \in Trajectories(1, {0}, 1..MaxLenS, {Num(100)},
                             {Num(10), NaN}, {FALSE}),
         t2 \in {<<>>} \cup Trajectories(2, {0}, 1..MaxLen2S, {Num(100)},
                                         {Num(10), NaN, PInf}, {FALSE}) :
        Constructed(seq, t1 \o t2, {})

NextSeg ==
    \/ \E kind \in {"linear", "nearest"} : Analyze(FALSE, TRUE, kind)
    \/ SegmentAMass

SpecSeg == InitSeg /\ [][NextSeg]_vars

(***************************************************************************)
(* Properties of segment_a_mass (SpecSeg).                                 *)
(***************************************************************************)
SegmentDone == last_call = "segment_a_mass" /\ err = "none"

\* The rows of particle p in frame order.
Trace(p) == SortSeq(SelectSeq(tracks, LAMBDA r : r.particle = p),
                    LAMBDA a, b : a.frame < b.frame)

\* The positions in Trace(p) of the acceptor-excitation rows, in order: entry
\* j + 1 is the row of the sample with acceptor-series index j.
AccRows(p) ==
    SetToSortedSeq({i \in DOMAIN Trace(p) :
        excitation_seq[(Trace(p)[i].frame % Len(excitation_seq)) + 1] = "a"})

\* C1: for a particle with finite acceptor a_mass and changepoints
\* c_1 < ... < c_n, the first row of segment i is the row right after the
\* acceptor-excitation row with acceptor-series index max(c_i - 1, 0), and
\* every row between acceptor sample c_i - 1 and acceptor sample c_i belongs
\* to segment i.
C1_BoundaryForwarding ==
    SegmentDone =>
      \A p \in DOMAIN cp_calls :
        LET cp == cp_calls[p]
            tr == Trace(p)
            acc == AccRows(p)
        IN  \A i \in DOMAIN cp :
              LET k == IF cp[i] - 1 > 0 THEN cp[i] - 1 ELSE 0
                  prev == acc[k + 1]
              IN  /\ prev + 1 \in DOMAIN tr
                  /\ tr[prev + 1].a_seg = i
                  /\ \A j \in 1..prev : tr[j].a_seg # i
                  /\ \A j \in DOMAIN tr :
                       (acc[cp[i]] < j /\ j < acc[cp[i] + 1])
                          => tr[j].a_seg = i

\* Witness of C1: two changepoints, and a donor-excitation row between the
\* acceptor samples c_2 - 1 and c_2.
C1_Witness ==
    /\ SegmentDone
    /\ \E p \in DOMAIN cp_calls :
         /\ Len(cp_calls[p]) = 2
         /\ \E j \in DOMAIN Trace(p) :
              /\ AccRows(p)[cp_calls[p][2]] < j
              /\ j < AccRows(p)[cp_calls[p][2] + 1]
              /\ Trace(p)[j].exc_type = "d"
              /\ Trace(p)[j].a_seg = 2

\* C2: for a particle with finite acceptor a_mass and n >= 0 changepoints the
\* a_seg values are non-decreasing in frame order and are exactly 0..n; with
\* no changepoint every row has id 0; with one changepoint at acceptor
\* position k the rows up to the k-th acceptor-excitation row have id 0 and
\* the rows after it, the next acceptor-excitation row included, have id 1.
C2_SegmentNumbering ==
    SegmentDone =>
      \A p \in DOMAIN cp_calls :
        LET cp == cp_calls[p]
            tr == Trace(p)
            acc == AccRows(p)
        IN  /\ \A i \in 1..(Len(tr) - 1) : tr[i].a_seg <= tr[i + 1].a_seg
            /\ {tr[i].a_seg : i \in DOMAIN tr} = 0..Len(cp)
            /\ Len(cp) = 0 => \A i \in DOMAIN tr : tr[i].a_seg = 0
            /\ Len(cp) = 1 =>
                 /\ \A i \in 1..acc[cp[1]] : tr[i].a_seg = 0
                 /\ \A i \in (acc[cp[1]] + 1)..Len(tr) : tr[i].a_seg = 1
                 /\ tr[acc[cp[1] + 1]].a_seg = 1

\* Witness of C2: a particle with one changepoint, one with two and one with
\* none have all been segmented.
C2_Witness ==
    /\ SegmentDone
    /\ \E p \in DOMAIN cp_calls :
         /\ Len(cp_calls[p]) = 1
         /\ Trace(p)[1].a_seg = 0
         /\ Trace(p)[Len(Trace(p))].a_seg = 1
         /\ Len(AccRows(p)) = 3
    /\ \E p \in DOMAIN cp_calls : Len(cp_calls[p]) = 0 /\ Len(Trace(p)) = 2

\* Whether some a_mass value at an acceptor-excitation row of p is NaN or
\* infinite.
NonFiniteAcceptor(p) ==
    \E j \in DOMAIN AccRows(p) : Trace(p)[AccRows(p)[j]].a_mass[2] = 0

\* C3: if any a_mass value at an acceptor-excitation row of a particle is NaN
\* or infinite, every row of the particle gets a_seg = -1, the changepoint
\* detector is not called for it, and no exception is raised.
C3_NonFiniteSentinel ==
    last_call = "segment_a_mass" /\ "a_mass" \in cols /\ tracks # <<>> =>
      /\ err = "none"
      /\ \A p \in ParticlesOf(tracks) :
           NonFiniteAcceptor(p) =>
             /\ \A i \in DOMAIN Trace(p) : Trace(p)[i].a_seg = 0 - 1
             /\ p \notin DOMAIN cp_calls

\* Witness of C3: one particle with an infinite and one with a NaN a_mass at
\* an acceptor-excitation row, each with a donor-excitation row as well, have
\* been given the sentinel.
C3_Witness ==
    /\ SegmentDone
    /\ \E p \in ParticlesOf(tracks) :
         /\ \E j \in DOMAIN AccRows(p) : Trace(p)[AccRows(p)[j]].a_mass = PInf
         /\ \A j \in DOMAIN AccRows(p) : Trace(p)[AccRows(p)[j]].a_mass # NaN
         /\ \E i \in DOMAIN Trace(p) :
              Trace(p)[i].exc_type = "d" /\ Trace(p)[i].a_seg = 0 - 1
    /\ \E p \in ParticlesOf(tracks) :
         /\ \E j \in DOMAIN AccRows(p) : Trace(p)[AccRows(p)[j]].a_mass = NaN
         /\ \E i \in DOMAIN Trace(p) :
              Trace(p)[i].exc_type = "d" /\ Trace(p)[i].a_seg = 0 - 1


(***************************************************************************)
(* SpecStep: analyze, segment_a_mass and acceptor_bleach_step on a         *)
(* trajectory of MaxLenB rows (particle 1) and an optional one of MaxLen2B *)
(* rows (particle 2).                                                      *)
(***************************************************************************)
MaxLenB == 5

MaxLen2B == 3

PatternsB == {<<"a", "d">>, <<"d", "a">>}

\* brightness_thresh of the calls.
ThresholdsB == {Num(500), Num(600)}

InitStep ==
    \E seq \in PatternsB :
      \E t1 \in TrajectoriesByExc(seq, 1, {0}, {MaxLenB}, {Num(100)},
                                  {Num(10), Num(600), Num(1000)}, {Num(50)}),
         t2 \in {<<>>} \cup TrajectoriesByExc(seq, 2, {0}, {MaxLen2B},
                                              {Num(100)},
                                              {Num(10), Num(1000), NaN},
                                              {Num(50)}) :
        Constructed(seq, t1 \o t2, {})

NextStep ==
    \/ Analyze(FALSE, TRUE, "linear")
    \/ SegmentAMass
    \/ \E th \in ThresholdsB, tr \in BOOLEAN : AcceptorBleachStep(th, tr)

SpecStep == InitStep /\ [][NextStep]_vars

(***************************************************************************)
(* Properties of acceptor_bleach_step (SpecStep).  They relate the table   *)
(* before a call (unprimed) to the table after it (primed).                *)
(***************************************************************************)
\* A step that is a call of acceptor_bleach_step which returned.
BleachStepReturns ==
    /\ last_call' = "acceptor_bleach_step"
    /\ err' = "none"
    /\ tracks # <<>>
    /\ {"a_mass", "exc_type", "a_seg"} \subseteq cols

\* The rows of particle p of table t, in frame order.
TraceOf(t, p) == SortSeq(SelectSeq(t, LAMBDA r : r.particle = p),
                         LAMBDA a, b : a.frame < b.frame)

\* The positions of a trace at which a new segment starts: the first row and
\* every row whose a_seg differs from the row before.
SegStarts(tr) ==
    {i \in DOMAIN tr : i = 1 \/ tr[i].a_seg # tr[i - 1].a_seg}

\* The a_mass values at the acceptor-excitation rows of the segment of tr
\* that starts at position s, in frame order.
SegAcceptorValues(tr, s) ==
    LET e == IF \E x \in SegStarts(tr) : x > s
             THEN (CHOOSE x \in SegStarts(tr) :
                      x > s /\ \A y \in SegStarts(tr) : y > s => x <= y) - 1
             ELSE Len(tr)
        rows == SelectSeq(SubSeq(tr, s, e), LAMBDA r : r.exc_type = "a")
    IN  [j \in DOMAIN rows |-> rows[j].a_mass]

\* The acceptance condition of C4 for a trace.
SingleStepBleach(tr, thresh) ==
    /\ Cardinality(SegStarts(tr)) >= 2
    /\ \A s \in SegStarts(tr) \ {1} :
         RLt(median(SegAcceptorValues(tr, s)), thresh)

\* C4: a particle has rows in the output of acceptor_bleach_step if and only
\* if its a_seg column shows at least 2 segments and every segment after the
\* first has a median a_mass over its acceptor-excitation rows strictly below
\* brightness_thresh.
C4_Acceptance ==
    [][BleachStepReturns =>
         \A p \in ParticlesOf(tracks) :
            (p \in ParticlesOf(tracks'))
               <=> SingleStepBleach(TraceOf(tracks, p),
                                    last_args'.brightness_thresh)]_vars

\* Witness of C4: after a call with threshold 500 a particle with a_mass
\* 1000 in segment 0 and 10 in segments 1 and 2 is in the table, and another
\* particle of the original table is gone.
C4_Witness ==
    /\ last_call = "acceptor_bleach_step"
    /\ err = "none"
    /\ last_args.brightness_thresh = Num(500)
    /\ ~last_args.truncate
    /\ \E p \in ParticlesOf(tracks) :
         LET tr == TraceOf(tracks, p)
         IN  /\ {tr[i].a_seg : i \in DOMAIN tr} = {0, 1, 2}
             /\ \A i \in DOMAIN tr :
                  tr[i].exc_type = "a" =>
                    tr[i].a_mass = IF tr[i].a_seg = 0 THEN Num(1000) ELSE Num(10)
    /\ ParticlesOf(tracks_orig) \ ParticlesOf(tracks) # {}

\* C5: for an accepted particle truncate=True keeps exactly the rows before
\* the first position where a_seg changes, and truncate=False keeps every row
\* of the particle.
C5_Truncation ==
    [][BleachStepReturns =>
         \A p \in ParticlesOf(tracks) :
            LET tr == TraceOf(tracks, p)
            IN  SingleStepBleach(tr, last_args'.brightness_thresh) =>
                  TraceOf(tracks', p) =
                     IF last_args'.truncate
                     THEN SubSeq(tr, 1,
                                 (CHOOSE x \in SegStarts(tr) \ {1} :
                                     \A y \in SegStarts(tr) \ {1} : x <= y) - 1)
                     ELSE tr]_vars

\* Witness of C5: a call with truncate=True has left a particle with at least
\* two rows, all of segment 0, and at least two rows fewer than it has in the
\* original table.
C5_Witness ==
    /\ last_call = "acceptor_bleach_step"
    /\ err = "none"
    /\ last_args.truncate
    /\ \E p \in ParticlesOf(tracks) :
         LET tr == TraceOf(tracks, p)
         IN  /\ \A i \in DOMAIN tr : tr[i].a_seg = 0
             /\ Len(tr) >= 2
             /\ Len(tr) + 2 <= Len(TraceOf(tracks_orig, p))

\* The particles of table t whose rows all hold the sentinel a_seg = -1.
SentinelParticles(t) ==
    {p \in ParticlesOf(t) :
        \A i \in DOMAIN t : t[i].particle = p => t[i].a_seg = 0 - 1}

\* C6: when acceptor_bleach_step runs on a table in which some particle has
\* a_seg = -1 on all its rows, no error is raised, that particle is not in
\* the output, and the rows kept of every other particle are those kept when
\* the call is made on the table without the sentinel particles.
C6_SentinelExcluded ==
    [][(/\ last_call' = "acceptor_bleach_step"
        /\ {"a_mass", "exc_type", "a_seg"} \subseteq cols
        /\ SentinelParticles(tracks) # {}) =>
         /\ err' = "none"
         /\ ParticlesOf(tracks') \cap SentinelParticles(tracks) = {}
         /\ LET rest == SelectSeq(tracks, LAMBDA r :
                            r.particle \notin SentinelParticles(tracks))
                alone == BleachStepTable(excitation_seq, SortTracks(rest),
                                         last_args'.brightness_thresh,
                                         last_args'.truncate)
            IN  \A q \in ParticlesOf(rest) :
                   TraceOf(tracks', q) = TraceOf(alone, q)]_vars

\* Witness of C6: after the call the table holds an accepted particle 1 while
\* particle 2, whose rows all held the sentinel, is gone.
C6_Witness ==
    /\ last_call = "acceptor_bleach_step"
    /\ err = "none"
    /\ ParticlesOf(tracks) = {1}
    /\ \E i \in DOMAIN tracks_orig :
         /\ tracks_orig[i].particle = 2
         /\ ExcTypeOf(excitation_seq, tracks_orig[i].frame) = "a"
         /\ tracks_orig[i].acceptor_mass = NaN

(***************************************************************************)
(* SpecFilter: analyze, query and filter_particles on a trajectory of      *)
(* MaxLenF rows (particle 1) and an optional one of MaxLen2F rows          *)
(* (particle 2).                                                           *)
(***************************************************************************)
MaxLenF == 6

MaxLen2F == 1

PatternsF == {<<"d", "a">>}

\* The expressions of the calls: one on an input column, one on a column
\* that analyze adds.
ExprsF == {[col |-> "acceptor_mass", op |-> ">", val |-> Num(500)],
           [col |-> "a_mass", op |-> ">", val |-> Num(500)]}

\* min_count of the calls.
MinCountsF == (0 - 2)..2

InitFilter ==
    \E seq \in PatternsF :
      \E t1 \in Trajectories(1, {0}, {MaxLenF}, {Num(100)},
                             {Num(10), Num(1000)}, {FALSE}),
         t2 \in {<<>>} \cup Trajectories(2, {0}, {MaxLen2F}, {Num(100)},
                                         {Num(10), Num(1000)}, {FALSE}) :
        Constructed(seq, t1 \o t2, {})

NextFilter ==
    \/ Analyze(FALSE, TRUE, "linear")
    \/ \E expr \in ExprsF : Query(expr)
    \/ \E expr \in ExprsF, min_count \in MinCountsF :
         FilterParticles(expr, min_count)

SpecFilter == InitFilter /\ [][NextFilter]_vars

(***************************************************************************)
(* Properties of filter_particles (SpecFilter).  They relate the table     *)
(* before a call (unprimed) to the table after it (primed).                *)
(***************************************************************************)
\* A step that is a call of filter_particles which returned.
FilterReturns ==
    /\ last_call' = "filter_particles"
    /\ err' = "none"

\* The number of rows of particle p in table t.
RowCount(t, p) == Cardinality({i \in DOMAIN t : t[i].particle = p})

\* The number of rows of particle p in table t on which expr holds.
MatchCount(t, p, expr) ==
    Cardinality({i \in DOMAIN t : t[i].particle = p /\ ExprHolds(t[i], expr)})

\* C7: with min_count <= 0, filter_particles retains a particle with k rows
\* of which m satisfy the expression if and only if m >= k + min_count; this
\* holds for every particle of the table, those with m = 0 included.
C7_NonPositiveMinCount ==
    [][(FilterReturns /\ last_args'.min_count <= 0) =>
         \A p \in ParticlesOf(tracks) :
            (p \in ParticlesOf(tracks'))
               <=> (MatchCount(tracks, p, last_args'.expr)
                      >= RowCount(tracks, p) + last_args'.min_count)]_vars

\* C8: with min_count >= 1, filter_particles retains a particle if and only
\* if the expression holds on at least min_count of its rows; a retained
\* particle keeps all of its rows and a removed particle keeps none.
C8_PositiveMinCount ==
    [][(FilterReturns /\ last_args'.min_count >= 1) =>
         tracks' = SelectSeq(tracks, LAMBDA r :
                      MatchCount(tracks, r.particle, last_args'.expr)
                         >= last_args'.min_count)]_vars

\* Witness of C8: after a call with min_count = 2 the table holds a particle
\* with a row on which the expression is false, and another particle of the
\* original table is gone.
C8_Witness ==
    /\ last_call = "filter_particles"
    /\ err = "none"
    /\ last_args.min_count = 2
    /\ \E i \in DOMAIN tracks : ~ExprHolds(tracks[i], last_args.expr)
    /\ ParticlesOf(tracks) # {}
    /\ ParticlesOf(tracks_orig) \ ParticlesOf(tracks) # {}

(***************************************************************************)
(* SpecMetrics: analyze, once or repeatedly, on a trajectory of MaxLenM    *)
(* rows (particle 1) and an optional one of MaxLen2M rows (particle 2).    *)
(* The table may have the has_neighbor column, with the flag set on some   *)
(* acceptor-excitation rows, and may come with a d_mass column.            *)
(***************************************************************************)
MaxLenM == 4

MaxLen2M == 1

PatternsM == {<<"d", "a">>, <<"d", "a", "o">>}

AccValsM == {Num(10), Num(40)}

\* The d_mass value of every row of a table that comes with the column.
InputDMass == Num(200)

\* The table t with the has_neighbor flag set on the rows at the positions F.
Flagged(t, F) == [i \in DOMAIN t |-> [t[i] EXCEPT !.has_neighbor = i \in F]]

\* The table t with a d_mass column, when with_col holds.
WithInputDMass(t, with_col) ==
    [i \in DOMAIN t |->
       [t[i] EXCEPT !.d_mass = IF with_col THEN InputDMass ELSE NoNum]]

InitMetrics ==
    \E seq \in PatternsM, has_nn \in BOOLEAN, with_dm \in BOOLEAN :
      \E t1 \in TrajectoriesByExc(seq, 1, {0}, {MaxLenM}, {Num(100)},
                                  AccValsM, {Num(10)}),
         t2 \in {<<>>} \cup TrajectoriesByExc(seq, 2, {0, 1}, {MaxLen2M},
                                              {Num(100)}, AccValsM,
                                              {Num(10)}) :
        \E F \in SUBSET {i \in DOMAIN (t1 \o t2) :
                           has_nn /\ ExcTypeOf(seq, (t1 \o t2)[i].frame) = "a"} :
          Constructed(seq,
                      WithInputDMass(Flagged(t1 \o t2, F), with_dm),
                      (IF has_nn THEN {"has_neighbor"} ELSE {})
                         \cup (IF with_dm THEN {"d_mass"} ELSE {}))

NextMetrics ==
    \E keep_d_mass \in BOOLEAN, invalid_nan \in BOOLEAN :
       Analyze(keep_d_mass, invalid_nan, "linear")

SpecMetrics == InitMetrics /\ [][NextMetrics]_vars

(***************************************************************************)
(* Properties of analyze (SpecMetrics).                                    *)
(***************************************************************************)
\* The particles of tracks without a usable direct-acceptor sample.
ZeroSampleParticles ==
    {p \in ParticlesOf(tracks) : UsableSamples(tracks, cols, p) = {}}

NoAcceptorRowParticles ==
    {p \in ParticlesOf(tracks) : DirectSamples(tracks, p) = {}}

\* C12 as stated: after analyze, a particle with zero
\* direct-acceptor-excitation rows has NaN stoichiometry and NaN efficiency
\* on all of its donor-excitation rows.
C12_ZeroSampleNaN ==
    AnalyzeDone =>
      \A i \in DOMAIN tracks :
        (tracks[i].particle \in NoAcceptorRowParticles
           /\ tracks[i].exc_type = "d")
          => (tracks[i].stoi = NaN /\ tracks[i].eff = NaN)

\* C12 amended: after analyze, a particle with zero
\* direct-acceptor-excitation rows has NaN stoichiometry on all of its rows;
\* the efficiency on its donor-excitation rows is the acceptor brightness
\* divided by the total brightness d_mass, which is a number when the
\* brightnesses are finite and the total is not 0.
C12_ZeroSampleStoiNaN ==
    AnalyzeDone =>
      \A i \in DOMAIN tracks :
        tracks[i].particle \in NoAcceptorRowParticles =>
          /\ tracks[i].stoi = NaN
          /\ tracks[i].exc_type = "d" =>
               /\ tracks[i].eff = RDiv(tracks[i].acceptor_mass,
                                       tracks[i].d_mass)
               /\ (isfinite(tracks[i].d_mass) /\ tracks[i].d_mass # Num(0)
                     /\ isfinite(tracks[i].acceptor_mass))
                    => isfinite(tracks[i].eff)

\* Witness of C12: analyze has returned on a table in which particle 2 has a
\* single, donor-excitation row with efficiency 10/110 and stoichiometry NaN,
\* next to a particle 1 with a stoichiometry that is a number.
C12_Witness ==
    /\ AnalyzeDone
    /\ 2 \in NoAcceptorRowParticles
    /\ \E i \in DOMAIN tracks :
         /\ tracks[i].particle = 2
         /\ tracks[i].exc_type = "d"
         /\ tracks[i].eff = <<1, 11>>
         /\ tracks[i].stoi = NaN
    /\ \E i \in DOMAIN tracks :
         tracks[i].particle = 1 /\ isfinite(tracks[i].stoi)

\* A step that is a call of analyze which returned.
AnalyzeReturns == last_call' = "analyze" /\ err' = "none"

\* The row of table t with the particle and frame of row r.
RowLike(t, r) ==
    t[CHOOSE i \in DOMAIN t :
         t[i].particle = r.particle /\ t[i].frame = r.frame]

\* The total brightness analyze computes for the row r of the table before
\* the call: the d_mass column when it is kept, else donor plus acceptor.
ComputedDMass(r) ==
    IF last_args'.keep_d_mass /\ "d_mass" \in cols
    THEN r.d_mass
    ELSE RAdd(r.donor_mass, r.acceptor_mass)

\* C13: analyze with invalid_nan=True leaves eff, stoi and d_mass NaN on
\* every row whose excitation category is not donor and the computed values
\* on the donor rows; with invalid_nan=False every row holds the computed
\* values.
C13_InvalidNan ==
    [][AnalyzeReturns =>
         \A i \in DOMAIN tracks' :
            LET r == tracks'[i]
                dm == ComputedDMass(RowLike(tracks, r))
                cat == excitation_seq[(r.frame % Len(excitation_seq)) + 1]
            IN  IF last_args'.invalid_nan /\ cat # "d"
                THEN r.eff = NaN /\ r.stoi = NaN /\ r.d_mass = NaN
                ELSE /\ r.d_mass = dm
                     /\ r.eff = RDiv(r.acceptor_mass, dm)
                     /\ r.stoi = RDiv(dm, RAdd(dm, r.a_mass))]_vars

\* Witness of C13: analyze with invalid_nan=True has returned on a table with
\* the pattern d, a, o; the rows at an "o" frame and at an "a" frame hold NaN
\* and a donor row holds numbers.
C13_Witness ==
    /\ AnalyzeDone
    /\ last_args.invalid_nan
    /\ \E i, j, k \in DOMAIN tracks :
         /\ tracks[i].exc_type = "o" /\ tracks[i].eff = NaN
         /\ tracks[i].stoi = NaN /\ tracks[i].d_mass = NaN
         /\ tracks[j].exc_type = "a" /\ tracks[j].eff = NaN
         /\ tracks[k].exc_type = "d" /\ isfinite(tracks[k].eff)
         /\ isfinite(tracks[k].stoi) /\ isfinite(tracks[k].d_mass)

(***************************************************************************)
(* SpecSing: analyze on one trajectory of MaxLenG rows whose brightness    *)
(* values make the total brightness, or the total plus the interpolated    *)
(* acceptor brightness, 0.                                                 *)
(***************************************************************************)
MaxLenG == 3

PatternsG == {<<"d", "a">>}

DonorValsG == {Num(0), Num(100), Num(0 - 10)}

AccValsG == {Num(0), Num(10)}

InitSing ==
    \E seq \in PatternsG :
      \E t \in Trajectories(1, {0}, {MaxLenG}, DonorValsG, AccValsG, {FALSE}) :
        Constructed(seq, t, {})

NextSing ==
    \E invalid_nan \in BOOLEAN : Analyze(FALSE, invalid_nan, "linear")

SpecSing == InitSing /\ [][NextSing]_vars

\* The sign of a finite number as an infinity: the result of dividing it by 0.
OverZero(x) == IF x[1] = 0 THEN NaN ELSE IF x[1] > 0 THEN PInf ELSE NInf

\* C14: analyze never raises on a numeric singularity.  On a row whose
\* values are not overwritten by invalid_nan, a total brightness of 0 gives
\* the efficiency NaN (0 / 0) or an infinity (acceptor / 0), and a total plus
\* interpolated acceptor brightness of 0 gives the stoichiometry NaN or an
\* infinity; on every other such row efficiency times total is the acceptor
\* brightness and stoichiometry times (total + a_mass) is the total.
C14_Singularities ==
    (last_call = "analyze" /\ tracks # <<>>) =>
      /\ err = "none"
      /\ \A i \in DOMAIN tracks :
           LET r == tracks[i]
               total == RAdd(r.donor_mass, r.acceptor_mass)
               denom == RAdd(total, r.a_mass)
           IN  (~last_args.invalid_nan \/ r.exc_type = "d") =>
                 /\ r.eff = IF total = Num(0) THEN OverZero(r.acceptor_mass)
                            ELSE r.eff
                 /\ total # Num(0) =>
                      isfinite(r.eff) /\ RMul(r.eff, total) = r.acceptor_mass
                 /\ r.stoi = IF denom = Num(0) THEN OverZero(total)
                             ELSE r.stoi
                 /\ denom # Num(0) =>
                      isfinite(r.stoi) /\ RMul(r.stoi, denom) = total

\* Witness of C14: analyze has returned on a table with a row of efficiency
\* NaN from 0 / 0, a row of efficiency +inf from 10 / 0, and a donor row
\* whose efficiency is a number and whose stoichiometry is infinite.
C14_Witness ==
    /\ AnalyzeDone
    /\ \E i, j, k \in DOMAIN tracks :
         /\ tracks[i].exc_type = "d" /\ tracks[i].eff = NaN
         /\ tracks[i].donor_mass = Num(0) /\ tracks[i].acceptor_mass = Num(0)
         /\ tracks[j].eff = PInf /\ tracks[j].acceptor_mass = Num(10)
         /\ tracks[k].exc_type = "d" /\ isfinite(tracks[k].eff)
         /\ tracks[k].stoi \in {PInf, NInf}

(***************************************************************************)
(* SpecSnap: every method that changes tracks, and reset, on a trajectory  *)
(* of MaxLenR rows (particle 1) and an optional one of MaxLen2R rows       *)
(* (particle 2).                                                           *)
(***************************************************************************)
MaxLenR == 3

MaxLen2R == 2

PatternsR == {<<"a", "d">>}

AccValsR == {Num(10), Num(1000)}

ThresholdsR == {Num(500)}

ExprsR == {[col |-> "acceptor_mass", op |-> ">", val |-> Num(500)]}

InitSnap ==
    \E seq \in PatternsR :
      \E t1 \in TrajectoriesByExc(seq, 1, {0}, {MaxLenR}, {Num(100)},
                                  AccValsR, {Num(50)}),
         t2 \in {<<>>} \cup TrajectoriesByExc(seq, 2, {0}, {MaxLen2R},
                                              {Num(100)}, AccValsR,
                                              {Num(50)}) :
        Constructed(seq, t1 \o t2, {})

NextSnap ==
    \/ Analyze(FALSE, TRUE, "linear")
    \/ SegmentAMass
    \/ \E th \in ThresholdsR, tr \in BOOLEAN : AcceptorBleachStep(th, tr)
    \/ \E expr \in ExprsR : Query(expr)
    \/ \E expr \in ExprsR : FilterParticles(expr, 1)
    \/ Reset

SpecSnap == InitSnap /\ [][NextSnap]_vars

\* C15: through any sequence of analyze, segment_a_mass,
\* acceptor_bleach_step, query, filter_particles and reset calls the caller's
\* table is not modified and tracks_orig equals it; reset makes tracks equal
\* to tracks_orig, rows and columns, and a reset right after a reset changes
\* nothing.
C15_Snapshots ==
    /\ tracks_orig = caller_tracks
    /\ [][/\ caller_tracks' = caller_tracks
          /\ tracks_orig' = caller_tracks'
          /\ cols_orig' = cols_orig
          /\ last_call' = "reset" =>
               /\ err' = "none"
               /\ tracks' = tracks_orig
               /\ cols' = cols_orig
          /\ (last_call = "reset" /\ last_call' = "reset") =>
               (tracks' = tracks /\ cols' = cols)]_vars

\* Witness of C15: reset has returned after analyze and segment_a_mass had
\* added columns; tracks has no derived column and holds the rows of both
\* particles of the caller's table.
C15_Witness ==
    /\ last_call = "reset"
    /\ DOMAIN cp_calls # {}
    /\ cols = {}
    /\ tracks = caller_tracks
    /\ ParticlesOf(tracks) = {1, 2}

\* C16: a call of analyze on an analyzer whose last call was analyze with
\* the same arguments, and whose tracks hold the columns that call wrote,
\* leaves exc_type, d_mass, eff, stoi and a_mass of every row as they are.
C16_Repeatable ==
    [][(/\ last_call = "analyze"
        /\ err = "none"
        /\ AnalyzeReturns
        /\ last_args' = last_args) =>
         (tracks' = tracks /\ cols' = cols)]_vars

\* Witness of C16: analyze has run on tracks that held the columns of an
\* earlier call: a row that is not a donor row has d_mass NaN although the
\* last call had invalid_nan=False, as it kept the d_mass column the earlier
\* call wrote.
C16_Witness ==
    /\ AnalyzeDone
    /\ ~last_args.invalid_nan
    /\ last_args.keep_d_mass
    /\ "d_mass" \notin cols_orig
    /\ \E i \in DOMAIN tracks :
         /\ tracks[i].exc_type # "d"
         /\ tracks[i].d_mass = NaN
         /\ tracks[i].a_mass # NaN

(***************************************************************************)
(* SpecIndep: analyze, segment_a_mass and acceptor_bleach_step on a        *)
(* trajectory of MaxLenP rows (particle 1), whose acceptor brightness may  *)
(* be NaN, and an optional trajectory of up to MaxLen2P rows (particle 2), *)
(* which may have no acceptor-excitation row.                              *)
(***************************************************************************)
MaxLenP == 3

MaxLen2P == 3

PatternsP == {<<"a", "d">>}

InitIndep ==
    \E seq \in PatternsP :
      \E t1 \in TrajectoriesByExc(seq, 1, {0}, {MaxLenP}, {Num(100)},
                                  {Num(10), Num(1000), NaN}, {Num(50)}),
         t2 \in {<<>>} \cup TrajectoriesByExc(seq, 2, {0, 1}, 1..MaxLen2P,
                                              {Num(100)},
                                              {Num(10), Num(1000)},
                                              {Num(50)}) :
        Constructed(seq, t1 \o t2, {})

NextIndep ==
    \/ Analyze(FALSE, TRUE, "linear")
    \/ SegmentAMass
    \/ \E th \in ThresholdsR, tr \in BOOLEAN : AcceptorBleachStep(th, tr)

SpecIndep == InitIndep /\ [][NextIndep]_vars

\* The table t with the particle ids 1 and 2 exchanged, so that the rows of
\* the two particles are processed in the other order.
Renumbered(t) == [i \in DOMAIN t |-> [t[i] EXCEPT !.particle = 3 - @]]

\* What the detector answered for particle p in the call that is the step.
AnswerFor(p) == IF p \in DOMAIN cp_calls' THEN cp_calls'[p] ELSE <<>>

\* The detector's answers for the blocks of the sorted table st, whose
\* particles are renumbered.
RenumberedAnswers(st) ==
    LET blocks == split_dataframe(st)
    IN  [b \in DOMAIN blocks |-> AnswerFor(3 - blocks[b][1].particle)]

\* C17, analyze: the rows of a particle after the call are those analyze
\* gives on the table of that particle alone, and those it gives, up to the
\* id, on the table with the particles renumbered.
C17_AnalyzeIndep ==
    AnalyzeReturns =>
      \A p \in ParticlesOf(tracks) :
         /\ TraceOf(tracks', p) =
              AnalyzedTable(excitation_seq, cols, RowsOfParticle(tracks, p),
                            last_args'.keep_d_mass, last_args'.invalid_nan,
                            last_args'.a_mass_interp)
         /\ TraceOf(tracks', p) =
              Renumbered(TraceOf(
                 AnalyzedTable(excitation_seq, cols, Renumbered(tracks),
                               last_args'.keep_d_mass, last_args'.invalid_nan,
                               last_args'.a_mass_interp), 3 - p))

\* C17, segment_a_mass: the same, given the detector's answer for the
\* particle.
C17_SegmentIndep ==
    (last_call' = "segment_a_mass" /\ err' = "none") =>
      \A p \in ParticlesOf(tracks) :
         /\ TraceOf(tracks', p) =
              SegmentedTable(excitation_seq, TraceOf(tracks, p),
                             <<AnswerFor(p)>>)
         /\ TraceOf(tracks', p) =
              LET st == SortTracks(Renumbered(tracks))
              IN  Renumbered(TraceOf(
                     SegmentedTable(excitation_seq, st, RenumberedAnswers(st)),
                     3 - p))

\* C17, acceptor_bleach_step: the same for the rows the call keeps.
C17_BleachIndep ==
    BleachStepReturns =>
      \A p \in ParticlesOf(tracks) :
         /\ TraceOf(tracks', p) =
              BleachStepTable(excitation_seq, TraceOf(tracks, p),
                              last_args'.brightness_thresh,
                              last_args'.truncate)
         /\ TraceOf(tracks', p) =
              Renumbered(TraceOf(
                 BleachStepTable(excitation_seq,
                                 SortTracks(Renumbered(tracks)),
                                 last_args'.brightness_thresh,
                                 last_args'.truncate), 3 - p))

\* C17: the a_mass, stoi and a_seg values of a particle and its acceptance by
\* acceptor_bleach_step depend only on the particle's own rows (and, for
\* a_seg, on the detector's answer for it): the rows of the other particles,
\* whether they are present, and the order in which the particles are
\* processed do not change them.
C17_Independence ==
    [][C17_AnalyzeIndep /\ C17_SegmentIndep /\ C17_BleachIndep]_vars

\* Witness of C17: acceptor_bleach_step has kept particle 2 and removed
\* particle 1, whose acceptor brightness was NaN at an acceptor-excitation
\* row and which was processed first.
C17_Witness ==
    /\ last_call = "acceptor_bleach_step"
    /\ err = "none"
    /\ ParticlesOf(tracks) = {2}
    /\ \E i \in DOMAIN tracks_orig :
         /\ tracks_orig[i].particle = 1
         /\ tracks_orig[i].acceptor_mass = NaN

(***************************************************************************)
(* The excitation sequence: construction, assignment, the lookup of the   *)
(* frame positions of a category and flag_excitation_type, on one         *)
(* trajectory that is longer than two periods of most of the sequences.   *)
(* Neither the constructor nor the setter rejects a sequence, so the      *)
(* sequences include the one of length 0.                                  *)
(***************************************************************************)
MaxLenE == 6

MaxPatE == 3

PatternsE ==
    UNION {[1..n -> {"a", "d"}] : n \in 0..MaxPatE} \cup {<<"d", "a", "o">>}

KeysE == {"a", "d", "o"}

InitExc ==
    \E seq \in PatternsE :
      \E t \in Trajectories(1, {0}, {MaxLenE}, {Num(100)}, {Num(10)},
                            {FALSE}) :
        Constructed(seq, t, {})

NextExc ==
    \/ \E v \in PatternsE : SetExcitationSeq(v)
    \/ \E k \in KeysE : LookupExcitationFrames(k)
    \/ FlagExcitationType

SpecExc == InitExc /\ [][NextExc]_vars

\* C18: with an excitation sequence of length L >= 1, flag_excitation_type
\* gives the row at frame f the category at position f mod L of the
\* sequence, so the rows at the frames f and f + L have the same category.
C18_Periodic ==
    (last_call = "flag_excitation_type" /\ err = "none"
       /\ Len(excitation_seq) >= 1) =>
      LET L == Len(excitation_seq)
      IN  /\ \A i \in DOMAIN tracks :
                 tracks[i].exc_type = excitation_seq[(tracks[i].frame % L) + 1]
          /\ \A i, j \in DOMAIN tracks :
                 tracks[j].frame = tracks[i].frame + L =>
                    tracks[j].exc_type = tracks[i].exc_type

\* Witness of C18: with the sequence d, a, o the rows at the frames 0 and 3
\* are both flagged d and the rows at the frames 2 and 5 are both flagged o.
C18_Witness ==
    /\ last_call = "flag_excitation_type"
    /\ err = "none"
    /\ excitation_seq = <<"d", "a", "o">>
    /\ \E i, j, k, l \in DOMAIN tracks :
         /\ tracks[i].frame = 0 /\ tracks[i].exc_type = "d"
         /\ tracks[j].frame = 3 /\ tracks[j].exc_type = "d"
         /\ tracks[k].frame = 2 /\ tracks[k].exc_type = "o"
         /\ tracks[l].frame = 5 /\ tracks[l].exc_type = "o"

\* C19: constructing an analyzer with an empty excitation sequence, or
\* assigning one, fails at that call: the call reports an error and no
\* analyzer holds a sequence of length 0.
C19_EmptyPatternFails ==
    /\ Len(excitation_seq) >= 1
    /\ (last_call \in {"__init__", "excitation_seq"}
          /\ Len(excitation_seq) = 0) => err # "none"

\* C20: excitation_frames[k] returns, in increasing order, exactly the
\* positions i in 0..L-1 at which the sequence holds k; for a k that is not
\* in the sequence this is the empty collection, and no error is raised.
C20_Lookup ==
    last_call = "excitation_frames" =>
      /\ err = "none"
      /\ ret = SetToSortedSeq({i \in 0..(Len(excitation_seq) - 1) :
                                 excitation_seq[i + 1] = last_args.k})

\* Witness of C20: the lookup of a category that a sequence of three
\* categories does not hold has returned the empty collection.
C20_Witness ==
    /\ last_call = "excitation_frames"
    /\ err = "none"
    /\ Len(excitation_seq) = 3
    /\ last_args.k \notin Range(excitation_seq)
    /\ ret = <<>>

(***************************************************************************)
(* sdt.fret.SmFretAnalyzer.get_excitation_type (the older class), applied *)
(* to the table the analyzer was built from.                               *)
(***************************************************************************)
\* is_don = (frames % len(self.desc)).isin(self.don)
is_don(seq, r) == ExcTypeOf(seq, r.frame) = "d"

\* A variant of get_excitation_type that takes every token but "a" for "d".
get_excitation_type_default(seq, t, type) ==
    IF type = "a"
    THEN [err |-> "none",
          table |-> SelectSeq(t, LAMBDA r : ~is_don(seq, r))]
    ELSE [err |-> "none", table |-> SelectSeq(t, LAMBDA r : is_don(seq, r))]

\* The outcome of get_excitation_type(tracks, type): the exception and, when
\* there is none, the table returned.
get_excitation_type(seq, t, type) ==
    IF type = "d"
    THEN [err |-> "none", table |-> SelectSeq(t, LAMBDA r : is_don(seq, r))]
    ELSE IF type = "a"
    THEN [err |-> "none",
          table |-> SelectSeq(t, LAMBDA r : ~is_don(seq, r))]
    ELSE [err |-> "ValueError", table |-> <<>>]

\* A call of get_excitation_type: a value is returned only when nothing is
\* raised.
GetExcitationType(type) ==
    LET res == get_excitation_type(excitation_seq, tracks_orig, type)
    IN  /\ err' = res.err
        /\ legacy' = IF res.err = "none" THEN res.table ELSE legacy
        /\ last_call' = "get_excitation_type"
        /\ last_args' = [type |-> type]
        /\ UNCHANGED <<excitation_seq, tracks_orig, cols_orig, tracks, cols,
                       cp_calls, exc_frames, caller_tracks, ret>>

MaxLenL == 3

PatternsL == {<<"d", "a">>, <<"a", "d", "d">>, <<"d", "a", "o">>}

TokensL == {"d", "a", "o", "x"}

InitLegacy ==
    \E seq \in PatternsL :
      \E t \in Trajectories(1, {0, 1}, {MaxLenL}, {Num(100)},
                            {Num(10), Num(40)}, {FALSE}) :
        Constructed(seq, t, {})

NextLegacy == \E type \in TokensL : GetExcitationType(type)

SpecLegacy == InitLegacy /\ [][NextLegacy]_vars

\* C21: a call of get_excitation_type with a token other than "d" and "a"
\* raises ValueError and returns nothing: the value returned by the calls
\* before it is all the caller has.
C21_UnknownToken ==
    [][(last_call' = "get_excitation_type"
          /\ last_args'.type \notin {"d", "a"}) =>
         (err' = "ValueError" /\ legacy' = legacy)]_vars

\* Witness of C21: the first call on an analyzer, with the token "o" on a
\* sequence that holds "o", has raised ValueError and nothing was returned.
C21_Witness ==
    /\ last_call = "get_excitation_type"
    /\ last_args.type = "o"
    /\ "o" \in Range(excitation_seq)
    /\ err = "ValueError"
    /\ legacy = <<>>

\* C22: the table get_excitation_type returns for "a" holds only rows at
\* the acceptor-excitation frames of the sequence, and the one for "d" only
\* rows at its donor-excitation frames.
C22_OnlySelectedCategory ==
    (last_call = "get_excitation_type" /\ err = "none") =>
      \A i \in DOMAIN legacy :
         ExcTypeOf(excitation_seq, legacy[i].frame) = last_args.type

(***************************************************************************)
(* segment_a_mass on a table whose rows are in any order: the analyzer is *)
(* built from a table that already holds the columns analyze computes,    *)
(* with its rows permuted.                                                 *)
(***************************************************************************)
MaxLenA == 3

MaxLen2A == 1

PatternsA == {<<"a", "d">>}

AccValsA == {Num(10), Num(1000)}

\* The columns analyze adds.
AnalyzeCols == {"exc_type", "eff", "stoi", "d_mass", "a_mass"}

\* The tables that hold the rows of t in some order.
RowOrders(t) ==
    {[i \in DOMAIN t |-> t[f[i]]] : f \in Permutations(DOMAIN t)}

InitAlign ==
    \E seq \in PatternsA :
      \E t1 \in TrajectoriesByExc(seq, 1, {0}, {MaxLenA}, {Num(100)},
                                  AccValsA, {Num(50)}),
         t2 \in TrajectoriesByExc(seq, 2, {0}, {MaxLen2A}, {Num(100)},
                                  {Num(10)}, {Num(50)}) :
        \E t \in RowOrders(AnalyzedTable(seq, {}, t1 \o t2, FALSE, TRUE,
                                         "linear")) :
          Constructed(seq, t, AnalyzeCols)

NextAlign ==
    \/ SegmentAMass
    \/ Reset

SpecAlign == InitAlign /\ [][NextAlign]_vars

\* A table without its a_seg column.
WithoutSeg(t) == [i \in DOMAIN t |-> [t[i] EXCEPT !.a_seg = NoSeg]]

\* C23: when segment_a_mass returns, tracks is sorted by (particle, frame),
\* it holds the rows it held before, and the a_seg values of a particle's
\* rows, in frame order, are those computed from that particle's
\* frame-ordered series and the detector's answer for it, whatever the order
\* of the rows before the call.
C23_LabelAlignment ==
    [][(last_call' = "segment_a_mass" /\ err' = "none") =>
         /\ \A i, j \in DOMAIN tracks' :
               i < j => RowLess(tracks'[i], tracks'[j])
         /\ Len(tracks') = Len(tracks)
         /\ Range(WithoutSeg(tracks')) = Range(WithoutSeg(tracks))
         /\ \A p \in ParticlesOf(tracks) :
               LET before == TraceOf(tracks, p)
                   after == TraceOf(tracks', p)
               IN  [i \in DOMAIN after |-> after[i].a_seg] =
                      SegmentsOfParticle(excitation_seq, before, AnswerFor(p))
      ]_vars

\* Witness of C23: segment_a_mass has returned on an analyzer whose table
\* began with a row of particle 2 followed by the rows of particle 1 in
\* falling frame order, and particle 1 has the segments 0 and 1.
C23_Witness ==
    /\ last_call = "segment_a_mass"
    /\ err = "none"
    /\ tracks_orig[1].particle = 2
    /\ \A i \in 2..(Len(tracks_orig) - 1) :
         tracks_orig[i].frame > tracks_orig[i + 1].frame
    /\ \E i, j \in DOMAIN tracks :
         /\ tracks[i].particle = 1 /\ tracks[i].a_seg = 0
         /\ tracks[j].particle = 1 /\ tracks[j].a_seg = 1

(***************************************************************************)
(* acceptor_bleach_step on segments that have lost their acceptor rows:   *)
(* between segment_a_mass and acceptor_bleach_step a query removes rows.  *)
(***************************************************************************)
MaxLenN == 6

MaxLen2N == 4

PatternsN == {<<"a", "d">>}

AccValsN == {Num(10), Num(1000)}

ThresholdsN == {Num(500)}

ExprsN == {[col |-> "acceptor_mass", op |-> ">", val |-> Num(20)],
           [col |-> "frame", op |-> "<", val |-> Num(4)]}

InitMedian ==
    \E seq \in PatternsN :
      \E t1 \in TrajectoriesByExc(seq, 1, {0}, {MaxLenN}, {Num(100)},
                                  AccValsN, {Num(50)}),
         t2 \in TrajectoriesByExc(seq, 2, {0}, {MaxLen2N}, {Num(100)},
                                  AccValsN, {Num(50)}) :
        /\ \A i \in DOMAIN t2 :
              ExcTypeOf(seq, t2[i].frame) = "a" =>
                 t2[i].acceptor_mass =
                    IF t2[i].frame = 0 THEN Num(1000) ELSE Num(10)
        /\ Constructed(seq, t1 \o t2, {})

NextMedian ==
    \/ Analyze(FALSE, TRUE, "linear")
    \/ SegmentAMass
    \/ \E expr \in ExprsN : Query(expr)
    \/ \E th \in ThresholdsN, tr \in BOOLEAN : AcceptorBleachStep(th, tr)

SpecMedian == InitMedian /\ [][NextMedian]_vars

\* Whether a segment after the first of the trace tr holds no
\* acceptor-excitation row.
HasUndefinedMedian(tr) ==
    \E s \in SegStarts(tr) \ {1} : SegAcceptorValues(tr, s) = <<>>

\* C24: when acceptor_bleach_step returns, no row is left of a particle one
\* of whose segments after the first held no acceptor-excitation row: the
\* undefined median of that segment does not count as below the threshold.
C24_UndefinedMedian ==
    [][BleachStepReturns =>
         \A p \in ParticlesOf(tracks) :
            HasUndefinedMedian(TraceOf(tracks, p))
               => p \notin ParticlesOf(tracks')]_vars

\* Witness of C24: particle 1 had the acceptor brightness 1000, 1000, 10 and
\* was cut by the detector before its last acceptor sample, particle 2 still
\* has its two segments, and acceptor_bleach_step has removed particle 1: a
\* query had taken the acceptor row out of its second segment.
C24_Witness ==
    /\ last_call = "acceptor_bleach_step"
    /\ err = "none"
    /\ 1 \in DOMAIN cp_calls
    /\ cp_calls[1] = <<2>>
    /\ LET a1 == SelectSeq(tracks_orig,
                           LAMBDA r : /\ r.particle = 1
                                      /\ ExcTypeOf(excitation_seq, r.frame)
                                            = "a")
       IN  [i \in DOMAIN a1 |-> a1[i].acceptor_mass]
              = <<Num(1000), Num(1000), Num(10)>>
    /\ ParticlesOf(tracks) = {2}
    /\ \E i, j \in DOMAIN tracks : tracks[i].a_seg # tracks[j].a_seg

(***************************************************************************)
(* Near-neighbour exclusion in analyze (SpecMetrics).                      *)
(***************************************************************************)
\* The acceptor brightness values put in place of those analyze must not
\* read.
ReplValsM == {Num(777), NaN}

\* Whether analyze must not read the acceptor brightness of row r for
\* a_mass: the row is flagged or it is not an acceptor-excitation row.
NotASample(r) ==
    r.has_neighbor \/ ExcTypeOf(excitation_seq, r.frame) # "a"

\* The a_mass column of a table.
AMassOf(t) == [i \in DOMAIN t |-> t[i].a_mass]

\* C25: with the has_neighbor column present, the a_mass column analyze
\* computes is the one it computes on the table in which the acceptor
\* brightness of every row that is flagged or is not at an
\* acceptor-excitation frame is replaced by one and the same value, so two
\* tables that differ only in the brightness of such rows get the same
\* a_mass column; and a_mass is NaN on every row of a particle whose
\* acceptor-excitation rows are all flagged.
C25_NeighborExclusion ==
    [][(AnalyzeReturns /\ "has_neighbor" \in cols) =>
         /\ \A v \in ReplValsM :
               LET other == [i \in DOMAIN tracks |->
                               IF NotASample(tracks[i])
                               THEN [tracks[i] EXCEPT !.acceptor_mass = v]
                               ELSE tracks[i]]
               IN  AMassOf(AnalyzedTable(excitation_seq, cols, other,
                                         last_args'.keep_d_mass,
                                         last_args'.invalid_nan,
                                         last_args'.a_mass_interp))
                      = AMassOf(tracks')
         /\ \A p \in ParticlesOf(tracks) :
               (\A i \in DOMAIN tracks :
                   tracks[i].particle = p => NotASample(tracks[i]))
               => \A i \in DOMAIN tracks' :
                     tracks'[i].particle = p => tracks'[i].a_mass = NaN
      ]_vars

\* Witness of C25: after analyze, particle 1, with a flagged acceptor row of
\* brightness 40 and an unflagged one of brightness 10, has a_mass 10 on
\* every row, and particle 2, whose only acceptor row is flagged, has a_mass
\* NaN.
C25_Witness ==
    /\ last_call = "analyze"
    /\ err = "none"
    /\ "has_neighbor" \in cols
    /\ \E i, j \in DOMAIN tracks :
         /\ tracks[i].particle = 1 /\ tracks[i].exc_type = "a"
         /\ tracks[i].has_neighbor /\ tracks[i].acceptor_mass = Num(40)
         /\ tracks[j].particle = 1 /\ tracks[j].exc_type = "a"
         /\ ~tracks[j].has_neighbor /\ tracks[j].acceptor_mass = Num(10)
    /\ \A i \in DOMAIN tracks :
         tracks[i].particle = 1 => tracks[i].a_mass = Num(10)
    /\ \E i \in DOMAIN tracks :
         /\ tracks[i].particle = 2 /\ tracks[i].exc_type = "a"
         /\ tracks[i].has_neighbor /\ tracks[i].a_mass = NaN

(***************************************************************************)
(* The acceptor samples of the segments (SpecSeg).                         *)
(***************************************************************************)
\* The segment ids of the rows of particle p.
SegIds(p) == {Trace(p)[i].a_seg : i \in DOMAIN Trace(p)}

\* Whether every segment of particle p holds an acceptor-excitation row.
EverySegmentSampled(p) ==
    \A s \in SegIds(p) :
       \E j \in DOMAIN AccRows(p) : Trace(p)[AccRows(p)[j]].a_seg = s

\* Whether the acceptor sample with index j (from 0) of particle p is in the
\* segment numbered by the count of changepoints that are at most j: segment
\* 0 holds the samples below c_1, segment i those in [c_i, c_(i+1)) and the
\* last segment those from c_n on.
SamplesPartitioned(p) ==
    \A j \in DOMAIN AccRows(p) :
       Trace(p)[AccRows(p)[j]].a_seg =
          Cardinality({k \in DOMAIN cp_calls[p] : cp_calls[p][k] <= j - 1})

\* Whether acceptor_bleach_step would compute a defined median for every
\* segment of particle p.
MediansDefined(p) ==
    \A s \in SegStarts(Trace(p)) :
       ~IsNaN(median(SegAcceptorValues(Trace(p), s)))

\* C26 as stated: after segment_a_mass every segment of every particle the
\* detector was called for holds an acceptor-excitation row, its samples are
\* the ones between its changepoints, and every median acceptor_bleach_step
\* would compute is defined.
C26_EverySegmentSampled ==
    SegmentDone =>
      \A p \in DOMAIN cp_calls :
         EverySegmentSampled(p) /\ SamplesPartitioned(p) /\ MediansDefined(p)

\* C26, amended: the same for every particle the detector was called for
\* that has at least one acceptor-excitation row.
C26_SampledSegments ==
    SegmentDone =>
      \A p \in DOMAIN cp_calls :
         AccRows(p) # <<>> =>
            EverySegmentSampled(p) /\ SamplesPartitioned(p)
               /\ MediansDefined(p)

\* Witness of C26: a particle with three acceptor samples and the
\* changepoints 1 and 2 has the segments 0, 1 and 2, one sample in each, and
\* donor-excitation rows in between.
C26_Witness ==
    /\ SegmentDone
    /\ \E p \in DOMAIN cp_calls :
         /\ cp_calls[p] = <<1, 2>>
         /\ Len(AccRows(p)) = 3
         /\ Len(Trace(p)) = 5
         /\ SegIds(p) = {0, 1, 2}

(***************************************************************************)
(* Particles without acceptor-excitation rows: a trajectory that misses   *)
(* the acceptor frames of the sequence, or a sequence that has no "a".    *)
(***************************************************************************)
MaxLenO == 3

MaxLen2O == 2

PatternsO == {<<"d", "a">>, <<"d">>, <<"d", "o">>}

AccValsO == {Num(10), Num(40)}

InitNoAcc ==
    \E seq \in PatternsO :
      \E t1 \in Trajectories(1, {0}, 1..MaxLenO, {Num(100)}, AccValsO,
                             {FALSE}),
         t2 \in {<<>>} \cup Trajectories(2, {0}, 1..MaxLen2O, {Num(100)},
                                         AccValsO, {FALSE}) :
        Constructed(seq, t1 \o t2, {})

NextNoAcc ==
    \/ \E invalid_nan \in BOOLEAN : Analyze(FALSE, invalid_nan, "linear")
    \/ SegmentAMass

SpecNoAcc == InitNoAcc /\ [][NextNoAcc]_vars

\* The particles of tracks none of whose rows is at an acceptor-excitation
\* frame of the sequence.
NoAccParticles ==
    {p \in ParticlesOf(tracks) :
        \A i \in DOMAIN tracks :
           tracks[i].particle = p
              => ExcTypeOf(excitation_seq, tracks[i].frame) # "a"}

\* C27: on a table that holds a particle without any acceptor-excitation
\* row, analyze raises nothing and gives the particle a_mass NaN on every
\* row, and a segment_a_mass that follows raises nothing and gives all rows
\* of the particle one and the same segment id.
C27_NoAcceptorRows ==
    /\ (last_call = "analyze" /\ NoAccParticles # {}) =>
          /\ err = "none"
          /\ \A i \in DOMAIN tracks :
                tracks[i].particle \in NoAccParticles
                   => tracks[i].a_mass = NaN
    /\ (last_call = "segment_a_mass" /\ "a_mass" \in cols
          /\ NoAccParticles # {}) =>
          /\ err = "none"
          /\ \A i, j \in DOMAIN tracks :
                (tracks[i].particle = tracks[j].particle
                   /\ tracks[i].particle \in NoAccParticles)
                   => tracks[i].a_seg = tracks[j].a_seg

(***************************************************************************)
(* The rows of tracks through analyze, segment_a_mass,                     *)
(* acceptor_bleach_step, query and filter_particles, without reset.        *)
(***************************************************************************)
NextRows ==
    \/ Analyze(FALSE, TRUE, "linear")
    \/ SegmentAMass
    \/ \E th \in ThresholdsR, tr \in BOOLEAN : AcceptorBleachStep(th, tr)
    \/ \E expr \in ExprsR : Query(expr)
    \/ \E expr \in ExprsR : FilterParticles(expr, 1)

SpecRows == InitSnap /\ [][NextRows]_vars

\* The input columns of a row.
InputOf(r) ==
    [particle |-> r.particle, frame |-> r.frame,
     donor_mass |-> r.donor_mass, acceptor_mass |-> r.acceptor_mass]

\* Whether every row of t is a row of tracks_orig, with its particle id,
\* frame and channel brightness, and is in t once.
RowsOfOrig(t) ==
    /\ \A i \in DOMAIN t :
          \E j \in DOMAIN tracks_orig : InputOf(t[i]) = InputOf(tracks_orig[j])
    /\ \A i, j \in DOMAIN t :
          (t[i].particle = t[j].particle /\ t[i].frame = t[j].frame) => i = j

\* C28: through analyze, segment_a_mass, acceptor_bleach_step, query and
\* filter_particles every row of tracks is a row of tracks_orig with the same
\* particle id, frame and channel brightness, no row is in tracks twice, and
\* analyze and segment_a_mass leave the set of rows as it is.
C28_RowsOnlyRemoved ==
    /\ RowsOfOrig(tracks)
    /\ [][/\ RowsOfOrig(tracks')
          /\ last_call' \in {"analyze", "segment_a_mass"} =>
               (Keys(tracks') = Keys(tracks) /\ Len(tracks') = Len(tracks))
         ]_vars

\* Witness of C28: after analyze and segment_a_mass, which wrote their
\* columns, a call that removes rows has left some rows of the original
\* table and removed others.
C28_Witness ==
    /\ last_call \in {"acceptor_bleach_step", "query", "filter_particles"}
    /\ err = "none"
    /\ {"a_mass", "a_seg"} \subseteq cols
    /\ tracks # <<>>
    /\ Len(tracks) < Len(tracks_orig)
    /\ Len(tracks_orig) = MaxLenR + MaxLen2R

(***************************************************************************)
(* eval, query and filter_particles with expressions on a column the      *)
(* table has from the start and on one it has only after analyze.         *)
(***************************************************************************)
NextAtomic ==
    \/ Analyze(FALSE, TRUE, "linear")
    \/ \E expr \in ExprsF : Eval(expr)
    \/ \E expr \in ExprsF : Query(expr)
    \/ \E expr \in ExprsF : FilterParticles(expr, 1)

SpecAtomic == InitSnap /\ [][NextAtomic]_vars

\* C29: a call of eval, query or filter_particles whose expression names a
\* column that tracks does not have raises, and a call that raises leaves the
\* rows of tracks and its column labels as they were; an eval that returns
\* leaves them as they were too and returns the mask of the expression, and
\* a query that returns keeps exactly the rows at which the expression
\* holds, in their order.
C29_FailureAtomicity ==
    [][(last_call' \in {"eval", "query", "filter_particles"}) =>
         /\ (tracks # <<>>
               /\ last_args'.expr.col \notin (InputCols \cup cols))
               => err' # "none"
         /\ err' # "none" => (tracks' = tracks /\ cols' = cols)
         /\ (last_call' = "eval" /\ err' = "none") =>
               /\ tracks' = tracks
               /\ cols' = cols
               /\ ret' = [i \in DOMAIN tracks |->
                            ExprHolds(tracks[i], last_args'.expr)]
         /\ (last_call' = "query" /\ err' = "none") =>
               /\ tracks' = SelectSeq(tracks, LAMBDA r :
                                ExprHolds(r, last_args'.expr))
               /\ cols' = cols
      ]_vars

\* Witness of C29: a query on the a_mass column, which the table does not
\* have, has raised after an earlier query had removed rows; the remaining
\* rows are there and the column labels are not the flattened ones.
C29_Witness ==
    /\ last_call = "query"
    /\ err = "UndefinedVariableError"
    /\ last_args.expr.col = "a_mass"
    /\ tracks # <<>>
    /\ Len(tracks) < Len(tracks_orig)
    /\ cols = {}

(***************************************************************************)
(* Repeated calls of acceptor_bleach_step.                                 *)
(***************************************************************************)
MaxLenT == 5

MaxLen2T == 3

PatternsT == {<<"a", "d">>}

AccValsT == {Num(10), Num(1000)}

ThresholdsT == {Num(500)}

InitRepeat ==
    \E seq \in PatternsT :
      \E t1 \in TrajectoriesByExc(seq, 1, {0}, {MaxLenT}, {Num(100)},
                                  AccValsT, {Num(50)}),
         t2 \in TrajectoriesByExc(seq, 2, {0}, {MaxLen2T}, {Num(100)},
                                  AccValsT, {Num(50)}) :
        Constructed(seq, t1 \o t2, {})

NextRepeat ==
    \/ Analyze(FALSE, TRUE, "linear")
    \/ SegmentAMass
    \/ \E th \in ThresholdsT, tr \in BOOLEAN : AcceptorBleachStep(th, tr)

SpecRepeat == InitRepeat /\ [][NextRepeat]_vars

\* A state right after a call of acceptor_bleach_step that returned.
AfterBleachStep ==
    /\ last_call = "acceptor_bleach_step"
    /\ err = "none"

\* C30: a call of acceptor_bleach_step with truncate=False right after one
\* with truncate=False and the same threshold leaves tracks as it is; a call
\* with truncate=True that returns leaves every particle it keeps with a
\* single segment, and a call of acceptor_bleach_step right after it leaves
\* no row.
C30_Repeated ==
    [][/\ (/\ AfterBleachStep
           /\ ~last_args.truncate
           /\ last_call' = "acceptor_bleach_step"
           /\ last_args' = last_args) => tracks' = tracks
       /\ (/\ last_call' = "acceptor_bleach_step"
           /\ err' = "none"
           /\ last_args'.truncate) =>
             \A i, j \in DOMAIN tracks' :
                tracks'[i].particle = tracks'[j].particle
                   => tracks'[i].a_seg = tracks'[j].a_seg
       /\ (/\ AfterBleachStep
           /\ last_args.truncate
           /\ last_call' = "acceptor_bleach_step") => tracks' = <<>>
      ]_vars

\* Witness of C30: the detector had cut particle 1, of acceptor brightness
\* 1000, 10, 10, at its first sample, so that it passes the test; a call
\* with truncate=False has returned on a table with rows and has left none,
\* which it does only after a truncating call.
C30_Witness ==
    /\ AfterBleachStep
    /\ ~last_args.truncate
    /\ tracks = <<>>
    /\ 1 \in DOMAIN cp_calls
    /\ cp_calls[1] = <<1>>
    /\ LET a1 == SelectSeq(tracks_orig,
                           LAMBDA r : /\ r.particle = 1
                                      /\ ExcTypeOf(excitation_seq, r.frame)
                                            = "a")
       IN  [i \in DOMAIN a1 |-> a1[i].acceptor_mass]
              = <<Num(1000), Num(10), Num(10)>>

====
